---- MODULE Spec2Model ----
(***************************************************************************)
(* A model of the permutation-testing engine: the Path (branch recorder),  *)
(* the thread Set with its version vectors, the atomic store history, the  *)
(* blocking primitives, the allocation tracker, Execution::schedule and    *)
(* Execution::step, and the driver loop that replays a closure until the   *)
(* Path is exhausted.                                                      *)
(*                                                                         *)
(* Conventions.  thread::Id(k) of the code is thread k+1 here, so that a   *)
(* Vec<Thread> is a TLA+ sequence; 0 stands for Option::None of a thread   *)
(* id, -1 for Option::None of a number (preemption_bound, last_yield, a    *)
(* first_seen entry, the path_id of an absent Access).  Path.pos and       *)
(* Access.path_id keep the code's 0-based values: branches[pos] of the     *)
(* code is branches[pos + 1] here, and Branch::Schedule(i) is stored as    *)
(* idx = i + 1.                                                            *)
(***************************************************************************)
EXTENDS Integers, Sequences, FiniteSets, TLC

\* Capacity of the thread set and length of every version vector.
MaxThreads == 3

\* Cap on the length of the tape.
MaxBranches == 40

\* How many times the driver model calls Path::step again after exhaustion.
MaxExtraSteps == 2

Tids == 1..MaxThreads

-----------------------------------------------------------------------------
(* Version vectors                                                         *)

VVNew == [i \in Tids |-> 0]

VVJoin(a, b) == [i \in Tids |-> IF a[i] >= b[i] THEN a[i] ELSE b[i]]

VVInc(a, t) == [a EXCEPT ![t] = @ + 1]

\* a <= b of PartialOrd for VersionVec: pointwise
VVLe(a, b) == \A i \in Tids : a[i] <= b[i]

-----------------------------------------------------------------------------
(* Orderings                                                               *)

is_seq_cst(order) == order = "SeqCst"

-----------------------------------------------------------------------------
(* Path                                                                    *)

PathNew(max_branches, preemption_bound) ==
    [preemption_bound |-> preemption_bound,
     pos |-> 0,
     branches |-> << >>,
     schedules |-> << >>,
     writes |-> << >>,
     max_branches |-> max_branches]

RECURSIVE FirstIdx(_, _, _)
\* index of the first element of s, from position i on, that equals v; 0 if none
FirstIdx(s, v, i) ==
    IF i > Len(s) THEN 0
    ELSE IF s[i] = v THEN i
    ELSE FirstIdx(s, v, i + 1)

\* fn active(threads): index of the first Active thread, None (0) if there is none
active(ths) == FirstIdx(ths, "Active", 1)

is_pending(th) == th = "Pending"

is_active(th) == th = "Active"

is_disabled(th) == th = "Disabled"

is_enabled(th) == ~is_disabled(th)

\* Thread::explore that also queues a thread that has been explored
explore_visited(th) == IF th \in {"Skip", "Visited"} THEN "Pending" ELSE th

\* Thread::explore
explore(th) == IF th = "Skip" THEN "Pending" ELSE th

\* Schedule::backtrack that makes the thread Active on the spot instead of
\* Pending
ScheduleBacktrackActivate(s, thread_id, preemption_bound) ==
    IF thread_id > Len(s.threads) THEN [sched |-> s, failed |-> FALSE]
    ELSE [sched |-> [s EXCEPT !.threads[thread_id] =
                        IF @ = "Skip" THEN "Active" ELSE @],
          failed |-> FALSE]

\* Schedule::backtrack that does not stop at a schedule that has used up the
\* preemption bound
ScheduleBacktrackUnbounded(s, thread_id, preemption_bound) ==
    IF thread_id > Len(s.threads)
    THEN [sched |-> s, failed |-> FALSE]
    ELSE IF is_enabled(s.threads[thread_id])
    THEN [sched |-> [s EXCEPT !.threads[thread_id] = explore(@)], failed |-> FALSE]
    ELSE [sched |-> [s EXCEPT !.threads =
                        [k \in 1..Len(s.threads) |-> explore(s.threads[k])]],
          failed |-> FALSE]

\* Schedule::backtrack that marks the one thread asked for, also when that
\* thread is Disabled in the schedule
ScheduleBacktrackNoWidening(s, thread_id, preemption_bound) ==
    IF preemption_bound # -1 /\ s.preemptions > preemption_bound
    THEN [sched |-> s, failed |-> TRUE]
    ELSE IF preemption_bound # -1 /\ s.preemptions = preemption_bound
    THEN [sched |-> s, failed |-> FALSE]
    ELSE IF thread_id > Len(s.threads)
    THEN [sched |-> s, failed |-> FALSE]
    ELSE [sched |-> [s EXCEPT !.threads[thread_id] = explore(@)], failed |-> FALSE]

\* Schedule::backtrack that gives up only past the preemption bound, not at it
ScheduleBacktrackAtBound(s, thread_id, preemption_bound) ==
    IF preemption_bound # -1 /\ s.preemptions > preemption_bound
    THEN [sched |-> s, failed |-> FALSE]
    ELSE IF thread_id > Len(s.threads)
    THEN [sched |-> s, failed |-> FALSE]
    ELSE IF is_enabled(s.threads[thread_id])
    THEN [sched |-> [s EXCEPT !.threads[thread_id] = explore(@)], failed |-> FALSE]
    ELSE [sched |-> [s EXCEPT !.threads =
                        [k \in 1..Len(s.threads) |-> explore(s.threads[k])]],
          failed |-> FALSE]

\* Schedule::backtrack.  thread_id is 1-based here.  Returns the schedule and
\* whether the assertion on the preemption count failed.
ScheduleBacktrack(s, thread_id, preemption_bound) ==
    IF preemption_bound # -1 /\ s.preemptions > preemption_bound
    THEN [sched |-> s, failed |-> TRUE]
    ELSE IF preemption_bound # -1 /\ s.preemptions = preemption_bound
    THEN [sched |-> s, failed |-> FALSE]
    ELSE IF thread_id > Len(s.threads)
    THEN [sched |-> s, failed |-> FALSE]
    ELSE IF is_enabled(s.threads[thread_id])
    THEN [sched |-> [s EXCEPT !.threads[thread_id] = explore(@)], failed |-> FALSE]
    ELSE [sched |-> [s EXCEPT !.threads =
                        [k \in 1..Len(s.threads) |-> explore(s.threads[k])]],
          failed |-> FALSE]

\* Path with Schedule::backtrack applied to schedules[j] (j is 1-based)
BacktrackAt(p, j, thread_id) ==
    LET r == ScheduleBacktrack(p.schedules[j], thread_id, p.preemption_bound)
    IN  [path |-> [p EXCEPT !.schedules[j] = r.sched], failed |-> r.failed]

\* the conservative point taken at the nearest earlier schedule whose active
\* thread differs from that of the schedule after it (j 0-based, as below)
ConservativePointSuccessor(p, j) ==
    LET S == {k \in 0..j :
                active(p.schedules[k + 1].threads) # active(p.schedules[k + 2].threads)}
    IN  IF S = {} THEN 0 ELSE CHOOSE m \in S : \A n \in S : n <= m

RECURSIVE ConservativePoint(_, _)
\* the loop `for j in (1..index).rev()` of Path::backtrack, j 0-based as in the
\* code: the largest j in 1..index-1, counting down from j, whose active thread
\* differs from that of schedule j-1; 0 when the loop finds none (schedules[0])
ConservativePoint(p, j) ==
    IF j < 1 THEN 0
    ELSE IF active(p.schedules[j + 1].threads) # active(p.schedules[j].threads)
    THEN j
    ELSE ConservativePoint(p, j - 1)

\* Path::backtrack(point, thread_id); point is 0-based as in the code
backtrack(p, point, thread_id) ==
    IF p.branches[point + 1].kind # "Schedule"
    THEN [path |-> p, failed |-> TRUE]
    ELSE
    LET index == p.branches[point + 1].idx - 1
        r1 == BacktrackAt(p, index + 1, thread_id)
    IN  IF r1.failed \/ p.preemption_bound = -1 \/ index = 0
        THEN r1
        ELSE BacktrackAt(r1.path, ConservativePoint(r1.path, index - 1) + 1, thread_id)

\* The Schedule record pushed by branch_thread when it records a new branch
NewSchedule(p, seed) ==
    LET num_active == Cardinality({k \in 1..Len(seed) : is_active(seed[k])})
        ths == IF num_active = 0
               THEN [k \in 1..Len(seed) |->
                        IF seed[k] = "Yield" THEN "Active" ELSE seed[k]]
               ELSE seed
        curr_active == active(ths)
        hasPrev == Len(p.schedules) > 0
        prev == p.schedules[Len(p.schedules)]
        initial_active ==
            IF hasPrev
            THEN (IF curr_active = active(prev.threads) THEN curr_active ELSE 0)
            ELSE curr_active
        preemptions ==
            IF hasPrev
            THEN (IF prev.initial_active # 0
                     /\ prev.initial_active # active(prev.threads)
                  THEN prev.preemptions + 1
                  ELSE prev.preemptions)
            ELSE 0
    IN  [preemptions |-> preemptions,
         initial_active |-> initial_active,
         threads |-> ths,
         init_threads |-> ths]

\* Path::branch_thread(seed): the path afterwards, the thread returned (0 for
\* None) and the panic raised, if any
branch_thread(p, seed) ==
    IF ~(Len(p.branches) < p.max_branches)
    THEN [path |-> p, ret |-> 0, panic |-> "max_branches"]
    ELSE IF p.pos = Len(p.branches)
            /\ Cardinality({k \in 1..Len(seed) : is_active(seed[k])}) > 1
    THEN [path |-> p, ret |-> 0, panic |-> "num_active"]
    ELSE
    LET p1 == IF p.pos = Len(p.branches)
              THEN [p EXCEPT
                      !.schedules = Append(@, NewSchedule(p, seed)),
                      !.branches = Append(@, [kind |-> "Schedule",
                                              idx |-> Len(p.schedules) + 1])]
              ELSE p
        b == p1.branches[p1.pos + 1]
    IN  IF b.kind # "Schedule"
        THEN [path |-> p1, ret |-> 0, panic |-> "not a schedule"]
        ELSE [path |-> [p1 EXCEPT !.pos = @ + 1],
              ret |-> active(p1.schedules[b.idx].threads),
              panic |-> ""]

\* Path::branch_write that returns the first index of the caller's seed also
\* while replaying
branch_write_seed_first(p, seed) ==
    IF ~(Len(p.branches) < p.max_branches)
    THEN [path |-> p, ret |-> 0, panic |-> "max_branches"]
    ELSE
    LET p1 == IF p.pos = Len(p.branches)
              THEN [p EXCEPT
                      !.writes = Append(@, seed),
                      !.branches = Append(@, [kind |-> "Write",
                                              idx |-> Len(p.writes) + 1])]
              ELSE p
        b == p1.branches[p1.pos + 1]
    IN  IF b.kind # "Write"
        THEN [path |-> p1, ret |-> 0, panic |-> "not a write"]
        ELSE IF Len(seed) = 0
        THEN [path |-> p1, ret |-> 0, panic |-> "index out of bounds"]
        ELSE [path |-> [p1 EXCEPT !.pos = @ + 1], ret |-> seed[1], panic |-> ""]

\* Path::branch_write(seed): the path afterwards, the store index returned and
\* the panic raised, if any.  seed is the sequence the iterator yields.
branch_write(p, seed) ==
    IF ~(Len(p.branches) < p.max_branches)
    THEN [path |-> p, ret |-> 0, panic |-> "max_branches"]
    ELSE
    LET p1 == IF p.pos = Len(p.branches)
              THEN [p EXCEPT
                      !.writes = Append(@, seed),
                      !.branches = Append(@, [kind |-> "Write",
                                              idx |-> Len(p.writes) + 1])]
              ELSE p
        b == p1.branches[p1.pos + 1]
    IN  IF b.kind # "Write"
        THEN [path |-> p1, ret |-> 0, panic |-> "not a write"]
        ELSE IF Len(p1.writes[b.idx]) = 0
        THEN [path |-> p1, ret |-> 0, panic |-> "index out of bounds"]
        ELSE [path |-> [p1 EXCEPT !.pos = @ + 1],
              ret |-> p1.writes[b.idx][1],
              panic |-> ""]

\* StepSchedule that forgets to mark the Active thread Visited
StepScheduleKeepActive(ths) ==
    LET q == FirstIdx(ths, "Pending", 1)
    IN  [threads |-> IF q # 0 THEN [ths EXCEPT ![q] = "Active"] ELSE ths,
         rem |-> q # 0]

\* the Schedule arm of Path::step on the last frame: the Active thread becomes
\* Visited, then the first Pending thread becomes Active
StepSchedule(ths) ==
    LET a == active(ths)
        t1 == IF a # 0 THEN [ths EXCEPT ![a] = "Visited"] ELSE ths
        q == FirstIdx(t1, "Pending", 1)
    IN  [threads |-> IF q # 0 THEN [t1 EXCEPT ![q] = "Active"] ELSE t1,
         rem |-> q # 0]

\* the loop of Path::step leaving (with false) at the first frame it pops
\* instead of going on to the frame below
StepLoopStop(p) ==
    IF Len(p.branches) = 0
    THEN [path |-> p, ret |-> FALSE]
    ELSE
    LET b == p.branches[Len(p.branches)]
    IN  IF b.kind = "Schedule"
        THEN LET r == StepSchedule(p.schedules[b.idx].threads)
             IN  IF ~r.rem
                 THEN [path |-> [p EXCEPT
                                   !.branches = SubSeq(@, 1, Len(@) - 1),
                                   !.schedules = SubSeq(@, 1, Len(@) - 1)],
                       ret |-> FALSE]
                 ELSE [path |-> [p EXCEPT !.schedules[b.idx].threads = r.threads],
                       ret |-> TRUE]
        ELSE LET w == IF Len(p.writes[b.idx]) = 0 THEN << >>
                      ELSE Tail(p.writes[b.idx])
             IN  IF Len(w) = 0
                 THEN [path |-> [p EXCEPT
                                   !.branches = SubSeq(@, 1, Len(@) - 1),
                                   !.writes = SubSeq(@, 1, Len(@) - 1)],
                       ret |-> FALSE]
                 ELSE [path |-> [p EXCEPT !.writes[b.idx] = w], ret |-> TRUE]

RECURSIVE StepLoopKeepsWrite(_)
\* the loop of Path::step without the pop_front of the Write arm
StepLoopKeepsWrite(p) ==
    IF Len(p.branches) = 0
    THEN [path |-> p, ret |-> FALSE]
    ELSE
    LET b == p.branches[Len(p.branches)]
    IN  IF b.kind = "Schedule"
        THEN LET r == StepSchedule(p.schedules[b.idx].threads)
             IN  IF ~r.rem
                 THEN StepLoopKeepsWrite([p EXCEPT
                        !.branches = SubSeq(@, 1, Len(@) - 1),
                        !.schedules = SubSeq(@, 1, Len(@) - 1)])
                 ELSE [path |-> [p EXCEPT !.schedules[b.idx].threads = r.threads],
                       ret |-> TRUE]
        ELSE IF Len(p.writes[b.idx]) = 0
             THEN StepLoopKeepsWrite([p EXCEPT
                        !.branches = SubSeq(@, 1, Len(@) - 1),
                        !.writes = SubSeq(@, 1, Len(@) - 1)])
             ELSE [path |-> p, ret |-> TRUE]

RECURSIVE StepLoop(_)
\* the while loop of Path::step
StepLoop(p) ==
    IF Len(p.branches) = 0
    THEN [path |-> p, ret |-> FALSE]
    ELSE
    LET b == p.branches[Len(p.branches)]
    IN  IF b.kind = "Schedule"
        THEN LET r == StepSchedule(p.schedules[b.idx].threads)
             IN  IF ~r.rem
                 THEN StepLoop([p EXCEPT
                        !.branches = SubSeq(@, 1, Len(@) - 1),
                        !.schedules = SubSeq(@, 1, Len(@) - 1)])
                 ELSE [path |-> [p EXCEPT !.schedules[b.idx].threads = r.threads],
                       ret |-> TRUE]
        ELSE LET w == IF Len(p.writes[b.idx]) = 0 THEN << >>
                      ELSE Tail(p.writes[b.idx])
             IN  IF Len(w) = 0
                 THEN StepLoop([p EXCEPT
                        !.branches = SubSeq(@, 1, Len(@) - 1),
                        !.writes = SubSeq(@, 1, Len(@) - 1)])
                 ELSE [path |-> [p EXCEPT !.writes[b.idx] = w], ret |-> TRUE]

\* Path::step
PathStep(p) == StepLoop([p EXCEPT !.pos = 0])

-----------------------------------------------------------------------------
(* thread::Thread and thread::Set                                          *)

NoOperation == [kind |-> "none", index |-> 0]

\* Thread::new
ThreadNew ==
    [state |-> "Runnable",
     critical |-> FALSE,
     operation |-> NoOperation,
     causality |-> VVNew,
     dpor_vv |-> VVNew,
     last_yield |-> -1,
     yield_count |-> 0]

is_runnable(th) == th.state = "Runnable"

is_blocked(th) == th.state = "Blocked"

is_yield(th) == th.state = "Yield"

is_terminated(th) == th.state = "Terminated"

\* Set::new and Set::clear: a single Runnable thread, which is active
SetNew ==
    [threads |-> << ThreadNew >>,
     active |-> 1,
     seq_cst_causality |-> VVNew]

\* Thread::unpark that takes the unparker's causality instead of joining it
ThreadUnparkAssign(th, unparker) ==
    IF is_blocked(th) \/ is_yield(th)
    THEN [th EXCEPT !.causality = unparker.causality, !.state = "Runnable"]
    ELSE [th EXCEPT !.causality = unparker.causality]

\* Thread::unpark
ThreadUnpark(th, unparker) ==
    LET c == VVJoin(th.causality, unparker.causality)
    IN  IF is_blocked(th) \/ is_yield(th)
        THEN [th EXCEPT !.causality = c, !.state = "Runnable"]
        ELSE [th EXCEPT !.causality = c]

\* Set::unpark
SetUnpark(set, id) ==
    IF id = set.active THEN set
    ELSE [set EXCEPT !.threads[id] = ThreadUnpark(@, set.threads[set.active])]

\* Set::active_causality_inc
active_causality_inc(set) ==
    [set EXCEPT !.threads[set.active].causality = VVInc(@, set.active)]

\* Set::active_atomic_version
active_atomic_version(set) == set.threads[set.active].causality[set.active]

\* Set::seq_cst
seq_cst(set) ==
    LET c == VVJoin(set.threads[set.active].causality, set.seq_cst_causality)
    IN  [set EXCEPT !.threads[set.active].causality = c,
                    !.seq_cst_causality = VVJoin(@, c)]

\* Thread::set_yield
set_yield(th, id) ==
    [th EXCEPT !.state = "Yield",
               !.last_yield = th.causality[id],
               !.yield_count = @ + 1]

-----------------------------------------------------------------------------
(* Synchronize: a version vector with release/acquire semantics            *)

SynchronizeNew == VVNew

\* Synchronize::sync_load: the thread set afterwards
sync_load(sync, set, order) ==
    IF order \in {"Acquire", "AcqRel"}
    THEN [set EXCEPT !.threads[set.active].causality = VVJoin(@, sync)]
    ELSE IF order = "SeqCst"
    THEN seq_cst([set EXCEPT !.threads[set.active].causality = VVJoin(@, sync)])
    ELSE set

\* Synchronize::sync_store: the stored vector and the thread set afterwards
sync_store(sync, set, order) ==
    IF order \in {"Release", "AcqRel"}
    THEN [sync |-> VVJoin(sync, set.threads[set.active].causality), set |-> set]
    ELSE IF order = "SeqCst"
    THEN [sync |-> VVJoin(sync, set.threads[set.active].causality),
          set |-> seq_cst(set)]
    ELSE [sync |-> sync, set |-> set]

-----------------------------------------------------------------------------
(* Object store: one sequence of state records per object kind.  An object *)
(* handle is [kind, index]; a thread's pending Operation is the handle of  *)
(* the object it is about to act on.                                       *)

NoAccess == [path_id |-> -1, dpor_vv |-> VVNew]

ObjectsNew ==
    [atomic |-> << >>,
     mutex |-> << >>,
     condvar |-> << >>,
     notify |-> << >>,
     alloc |-> << >>,
     raw_allocations |-> {}]

\* object::Set::last_dependent_accesses(operation): the object's last access
last_dependent_access(objs, operation) ==
    objs[operation.kind][operation.index].last_access

\* object::Set::set_last_access(operation, access)
set_last_access(objs, operation, access) ==
    [objs EXCEPT ![operation.kind][operation.index].last_access = access]

-----------------------------------------------------------------------------
(* Atomic simulator                                                        *)

\* FirstSeen::touch on a first_seen vector
touch(first_seen, set) ==
    IF first_seen[set.active] = -1
    THEN [first_seen EXCEPT ![set.active] = active_atomic_version(set)]
    ELSE first_seen

\* FirstSeen::new
FirstSeenNew(set) == touch([i \in Tids |-> -1], set)

\* FirstSeen::is_seen_by_current
is_seen_by_current(first_seen, set) ==
    \E t \in Tids :
        /\ first_seen[t] # -1
        /\ first_seen[t] <= set.threads[set.active].causality[t]

\* FirstSeen::is_seen_before_yield
is_seen_before_yield(first_seen, set) ==
    LET last_yield == set.threads[set.active].last_yield
    IN  /\ last_yield # -1
        /\ first_seen[set.active] # -1
        /\ first_seen[set.active] <= last_yield

RECURSIVE PickWalk(_, _, _, _, _, _)
\* the take_while of History::pick_store, from store i downwards: the indices
\* yielded, newest first
PickWalk(stores, set, order, i, in_causality, first) ==
    IF i < 1 THEN << >>
    ELSE IF is_seen_before_yield(stores[i].first_seen, set)
    THEN (IF first THEN << i >> \o PickWalk(stores, set, order, i - 1, TRUE, FALSE)
          ELSE << >>)
    ELSE IF in_causality THEN << >>
    ELSE << i >> \o PickWalk(stores, set, order, i - 1,
                in_causality
                    \/ (is_seq_cst(order) /\ stores[i].seq_cst)
                    \/ is_seen_by_current(stores[i].first_seen, set),
                FALSE)

RECURSIVE PickWalkYieldIncluded(_, _, _, _, _)
\* the walk of pick_store when a store seen before the last yield is included
\* wherever the walk meets it
PickWalkYieldIncluded(stores, set, order, i, in_causality) ==
    IF i < 1 THEN << >>
    ELSE IF is_seen_before_yield(stores[i].first_seen, set) THEN << i >>
    ELSE IF in_causality THEN << >>
    ELSE << i >> \o PickWalkYieldIncluded(stores, set, order, i - 1,
                in_causality
                    \/ (is_seq_cst(order) /\ stores[i].seq_cst)
                    \/ is_seen_by_current(stores[i].first_seen, set))

\* pick_store that includes the store seen before the last yield also when it
\* is not the newest
pick_store_seed_yield_included(stores, set, order) ==
    PickWalkYieldIncluded(stores, set, order, Len(stores), FALSE)

RECURSIVE PickWalkPastSeen(_, _, _, _)
\* the walk of pick_store when a store in the thread's causality does not end it:
\* only a SeqCst store met by a SeqCst load does
PickWalkPastSeen(stores, set, order, i) ==
    IF i < 1 THEN << >>
    ELSE IF is_seq_cst(order) /\ stores[i].seq_cst THEN << i >>
    ELSE << i >> \o PickWalkPastSeen(stores, set, order, i - 1)

\* pick_store that ignores what the loading thread has seen
pick_store_seed_past_seen(stores, set, order) ==
    PickWalkPastSeen(stores, set, order, Len(stores))

\* pick_store that offers every store of the history
pick_store_seed_all(stores, set, order) ==
    [k \in 1..Len(stores) |-> Len(stores) + 1 - k]

\* the seed History::pick_store hands to Path::branch_write
pick_store_seed(stores, set, order) ==
    PickWalk(stores, set, order, Len(stores), FALSE, TRUE)

\* the Store a `store` of the given ordering pushes; value is the payload the
\* wrapper keeps beside the history, at is the storing thread's causality on
\* entry and rmw tells a store pushed by State::rmw (history variables:
\* nothing in the engine reads them)
StoreNew(set, order, value) ==
    LET r == sync_store(SynchronizeNew, set, order)
    IN  [store |-> [sync |-> r.sync,
                    first_seen |-> FirstSeenNew(set),
                    seq_cst |-> is_seq_cst(order),
                    value |-> value,
                    by |-> set.active,
                    order |-> order,
                    at |-> set.threads[set.active].causality,
                    rmw |-> FALSE],
         set |-> r.set]

\* happens_before with the comparison the wrong way round
happens_before_reversed(state, vv) ==
    \A k \in 1..Len(state.history) : VVLe(vv, state.history[k].sync)

\* State::happens_before(vv): whether the assertion holds
happens_before(state, vv) ==
    \A k \in 1..Len(state.history) : VVLe(state.history[k].sync, vv)

-----------------------------------------------------------------------------
(* Execution.  An execution value e is [path, set, objs, panic, races]: the *)
(* Path, the thread Set, the object store, the panic message raised so far *)
(* ("" when none) and, as a history field, the races the last call of      *)
(* schedule found.                                                         *)

RECURSIVE DporLoopReversed(_, _, _, _)
\* the first loop of Execution::schedule with the comparison of the clocks the
\* wrong way round
DporLoopReversed(p, ths, objs, k) ==
    IF k > Len(ths) THEN [path |-> p, failed |-> FALSE]
    ELSE IF ths[k].operation.kind = "none" THEN DporLoopReversed(p, ths, objs, k + 1)
    ELSE
    LET access == last_dependent_access(objs, ths[k].operation)
    IN  IF access.path_id = -1 \/ VVLe(ths[k].dpor_vv, access.dpor_vv)
        THEN DporLoopReversed(p, ths, objs, k + 1)
        ELSE LET r == backtrack(p, access.path_id, k)
             IN  IF r.failed THEN r ELSE DporLoopReversed(r.path, ths, objs, k + 1)

RECURSIVE DporLoop(_, _, _, _)
\* the first loop of Execution::schedule, from thread k on: every thread with a
\* pending operation whose object's last access is not <= the thread's DPOR
\* clock is marked for exploration at that access's path point
DporLoop(p, ths, objs, k) ==
    IF k > Len(ths) THEN [path |-> p, failed |-> FALSE]
    ELSE IF ths[k].operation.kind = "none" THEN DporLoop(p, ths, objs, k + 1)
    ELSE
    LET access == last_dependent_access(objs, ths[k].operation)
    IN  IF access.path_id = -1 \/ VVLe(access.dpor_vv, ths[k].dpor_vv)
        THEN DporLoop(p, ths, objs, k + 1)
        ELSE LET r == backtrack(p, access.path_id, k)
             IN  IF r.failed THEN r ELSE DporLoop(r.path, ths, objs, k + 1)

\* the races the first loop of Execution::schedule finds: the pairs of a path
\* point and a thread whose pending operation is on an object last accessed at
\* that point by an access that is not <= the thread's DPOR clock
DporRaces(ths, objs) ==
    {<< last_dependent_access(objs, ths[k].operation).path_id, k >> :
        k \in {j \in 1..Len(ths) :
                 /\ ths[j].operation.kind # "none"
                 /\ last_dependent_access(objs, ths[j].operation).path_id # -1
                 /\ ~VVLe(last_dependent_access(objs, ths[j].operation).dpor_vv,
                          ths[j].dpor_vv)}}

\* the thread the seed of Execution::schedule marks Active: the active thread if
\* it is runnable, else the first runnable thread, else none
SeedInitial(set) ==
    IF is_runnable(set.threads[set.active]) THEN set.active
    ELSE LET R == {k \in 1..Len(set.threads) : is_runnable(set.threads[k])}
         IN  IF R = {} THEN 0 ELSE CHOOSE k \in R : \A j \in R : k <= j

\* SeedStatus that disables only terminated threads: a blocked thread is Skip
SeedStatusBlockedSkip(th, k, initial) ==
    IF initial = k THEN "Active"
    ELSE IF is_yield(th) THEN "Yield"
    ELSE IF is_terminated(th) THEN "Disabled"
    ELSE "Skip"

\* the status of thread k in the seed Execution::schedule hands to branch_thread
SeedStatus(th, k, initial) ==
    IF initial = k THEN "Active"
    ELSE IF is_yield(th) THEN "Yield"
    ELSE IF ~is_runnable(th) THEN "Disabled"
    ELSE "Skip"

ScheduleSeed(set) ==
    [k \in 1..Len(set.threads) |-> SeedStatus(set.threads[k], k, SeedInitial(set))]

\* the deadlock assertion left out
DeadlockAssertNone(ths) == TRUE

\* whether the deadlock assertion of Execution::schedule holds
DeadlockAssert(ths) == \A k \in 1..Len(ths) : is_terminated(ths[k])

\* ScheduleActivate that joins the last access into the DPOR clock of `next`
\* and does not bump the thread's own slot
ScheduleActivateNoBump(e, next, path_id) ==
    LET op == e.set.threads[next].operation
        vv == IF op.kind = "none" THEN e.set.threads[next].dpor_vv
              ELSE VVJoin(e.set.threads[next].dpor_vv,
                          last_dependent_access(e.objs, op).dpor_vv)
        objs1 == IF op.kind = "none" THEN e.objs
                 ELSE set_last_access(e.objs, op,
                                      [path_id |-> path_id, dpor_vv |-> vv])
        ths1 == [k \in 1..Len(e.set.threads) |->
                    LET th == IF k = next
                              THEN [e.set.threads[k] EXCEPT !.dpor_vv = vv]
                              ELSE e.set.threads[k]
                    IN  IF is_yield(th) /\ k # next
                        THEN [th EXCEPT !.state = "Runnable"]
                        ELSE th]
    IN  [e EXCEPT !.objs = objs1, !.set.threads = ths1, !.set.active = next]

\* the tail of Execution::schedule once thread `next` has been made active: its
\* DPOR clock joins the last dependent access and is bumped, the access is
\* recorded, and yielded threads other than `next` become runnable
ScheduleActivate(e, next, path_id) ==
    LET op == e.set.threads[next].operation
        vv == IF op.kind = "none" THEN e.set.threads[next].dpor_vv
              ELSE VVInc(VVJoin(e.set.threads[next].dpor_vv,
                                last_dependent_access(e.objs, op).dpor_vv), next)
        objs1 == IF op.kind = "none" THEN e.objs
                 ELSE set_last_access(e.objs, op,
                                      [path_id |-> path_id, dpor_vv |-> vv])
        ths1 == [k \in 1..Len(e.set.threads) |->
                    LET th == IF k = next
                              THEN [e.set.threads[k] EXCEPT !.dpor_vv = vv]
                              ELSE e.set.threads[k]
                    IN  IF is_yield(th) /\ k # next
                        THEN [th EXCEPT !.state = "Runnable"]
                        ELSE th]
    IN  [e EXCEPT !.objs = objs1, !.set.threads = ths1, !.set.active = next]

\* Execution::schedule
schedule(e0) ==
    IF e0.panic # "" THEN e0
    ELSE
    LET e == [e0 EXCEPT !.races = DporRaces(e0.set.threads, e0.objs)]
        d == DporLoop(e.path, e.set.threads, e.objs, 1)
    IN  IF d.failed THEN [e EXCEPT !.path = d.path, !.panic = "preemptions"]
        ELSE
        LET path_id == d.path.pos
            b == branch_thread(d.path, ScheduleSeed(e.set))
            e1 == [e EXCEPT !.path = b.path]
        IN  IF b.panic # "" THEN [e1 EXCEPT !.panic = b.panic]
            ELSE IF b.ret = 0
            THEN (IF DeadlockAssert(e.set.threads)
                  THEN [e1 EXCEPT !.set.active = 0]
                  ELSE [e1 EXCEPT !.set.active = 0, !.panic = "deadlock"])
            ELSE ScheduleActivate(e1, b.ret, path_id)

\* Execution::new_thread: the new thread inherits the active thread's clocks
\* and its own causality slot is bumped
new_thread(e) ==
    IF ~(Len(e.set.threads) < MaxThreads)
    THEN [e EXCEPT !.panic = "max_threads"]
    ELSE
    LET id == Len(e.set.threads) + 1
        act == e.set.threads[e.set.active]
        th == [ThreadNew EXCEPT
                 !.causality = VVInc(VVJoin(@, act.causality), id),
                 !.dpor_vv = VVJoin(@, act.dpor_vv)]
    IN  [e EXCEPT !.set.threads = Append(@, th)]

\* unpark_thread that makes the thread runnable whatever its state
unpark_thread_always(e, id) ==
    IF id = e.set.active THEN e
    ELSE [e EXCEPT !.set.threads[id] =
            [@ EXCEPT !.causality =
                        VVJoin(@, e.set.threads[e.set.active].causality),
                      !.state = "Runnable"]]

\* Execution::unpark_thread
unpark_thread(e, id) ==
    IF id = e.set.active THEN e
    ELSE LET th == e.set.threads[id]
             c == VVJoin(th.causality, e.set.threads[e.set.active].causality)
         IN  [e EXCEPT !.set.threads[id] =
                 IF is_blocked(th) \/ is_yield(th)
                 THEN [th EXCEPT !.causality = c, !.state = "Runnable"]
                 ELSE [th EXCEPT !.causality = c]]

\* object::branch(action) and branch_opaque: the operation is recorded on the
\* active thread, then the scheduler runs
branch(e, obj) ==
    schedule([e EXCEPT !.set.threads[e.set.active].operation = obj])

\* object::branch_acquire(is_locked): as branch, and the active thread blocks
\* first when the object cannot be acquired
branch_acquire(e, obj, is_locked) ==
    schedule([e EXCEPT
        !.set.threads[e.set.active].operation = obj,
        !.set.threads[e.set.active].state = IF is_locked THEN "Blocked" ELSE @])

\* rt::park: the active thread blocks with no pending operation
park(e) ==
    schedule([e EXCEPT
        !.set.threads[e.set.active].operation = NoOperation,
        !.set.threads[e.set.active].state = "Blocked"])

\* rt::thread_done: the active thread terminates
thread_done(e) ==
    schedule([e EXCEPT
        !.set.threads[e.set.active].operation = NoOperation,
        !.set.threads[e.set.active].state = "Terminated"])

\* rt::yield_now
yield_now(e) ==
    schedule([e EXCEPT
        !.set.threads[e.set.active] =
            [set_yield(@, e.set.active) EXCEPT !.operation = NoOperation]])

-----------------------------------------------------------------------------
(* Bodies of the engine operations, as functions of the execution value    *)

\* Execution::set_critical
set_critical(e) == [e EXCEPT !.set.threads[e.set.active].critical = TRUE]

\* Execution::unset_critical
unset_critical(e) == [e EXCEPT !.set.threads[e.set.active].critical = FALSE]

\* Atomic::new(value): the history is seeded with an initial store
atomic_new(e, value) ==
    LET st == [sync |-> SynchronizeNew,
               first_seen |-> FirstSeenNew(e.set),
               seq_cst |-> FALSE,
               value |-> value,
               by |-> e.set.active,
               order |-> "Relaxed",
               at |-> e.set.threads[e.set.active].causality,
               rmw |-> FALSE]
    IN  [e EXCEPT !.objs.atomic =
            Append(@, [last_access |-> NoAccess, history |-> << st >>])]

\* rt::synchronize: the active thread's own causality slot is bumped before the
\* operation runs
synchronize(e) == [e EXCEPT !.set = active_causality_inc(@)]

\* State::load that forgets sync_load on the store it read
atomic_load_no_sync(e0, x, order) ==
    LET e == synchronize(e0)
        stores == e.objs.atomic[x].history
        w == branch_write(e.path, pick_store_seed(stores, e.set, order))
    IN  IF w.panic # ""
        THEN [e |-> [e EXCEPT !.path = w.path, !.panic = w.panic], index |-> 0]
        ELSE [e |-> [e EXCEPT
                       !.path = w.path,
                       !.objs.atomic[x].history[w.ret].first_seen = touch(@, e.set)],
              index |-> w.ret]

\* State::load under rt::synchronize: the execution afterwards and the index read
atomic_load(e0, x, order) ==
    LET e == synchronize(e0)
        stores == e.objs.atomic[x].history
        w == branch_write(e.path, pick_store_seed(stores, e.set, order))
    IN  IF w.panic # ""
        THEN [e |-> [e EXCEPT !.path = w.path, !.panic = w.panic], index |-> 0]
        ELSE [e |-> [e EXCEPT
                       !.path = w.path,
                       !.objs.atomic[x].history[w.ret].first_seen = touch(@, e.set),
                       !.set = sync_load(stores[w.ret].sync, e.set, order)],
              index |-> w.ret]

\* State::store that keeps only the store it pushes
atomic_store_overwrite(e0, x, order, value) ==
    LET e == synchronize(e0)
        r == StoreNew(e.set, order, value)
    IN  [e EXCEPT !.objs.atomic[x].history = << r.store >>, !.set = r.set]

\* State::store under rt::synchronize
atomic_store(e0, x, order, value) ==
    LET e == synchronize(e0)
        r == StoreNew(e.set, order, value)
    IN  [e EXCEPT !.objs.atomic[x].history = Append(@, r.store), !.set = r.set]

\* State::rmw that pushes the new store before it asks the closure, so that a
\* failed attempt leaves a store behind
atomic_rmw_failed_appends(e0, x, expected, new, success, failure) ==
    LET e == synchronize(e0)
        stores == e.objs.atomic[x].history
        index == Len(stores)
        seen == touch(stores[index].first_seen, e.set)
        ok == expected = -1 \/ stores[index].value = expected
        set1 == sync_load(stores[index].sync, e.set, IF ok THEN success ELSE failure)
        r == sync_store(stores[index].sync, set1, success)
        st == [sync |-> r.sync,
               first_seen |-> FirstSeenNew(set1),
               seq_cst |-> is_seq_cst(success),
               value |-> IF expected = -1 THEN stores[index].value + new ELSE new,
               by |-> e.set.active,
               order |-> success,
               at |-> e.set.threads[e.set.active].causality,
               rmw |-> TRUE]
    IN  [e |-> [e EXCEPT
                  !.objs.atomic[x].history =
                      Append([stores EXCEPT ![index].first_seen = seen], st),
                  !.set = r.set],
         index |-> index, ok |-> ok]

\* State::rmw whose new store starts from an empty Synchronize, not from a
\* clone of its predecessor's
atomic_rmw_fresh_sync(e0, x, expected, new, success, failure) ==
    LET e == synchronize(e0)
        stores == e.objs.atomic[x].history
        index == Len(stores)
        seen == touch(stores[index].first_seen, e.set)
        ok == expected = -1 \/ stores[index].value = expected
        set1 == sync_load(stores[index].sync, e.set, success)
        r == sync_store(SynchronizeNew, set1, success)
        st == [sync |-> r.sync,
               first_seen |-> FirstSeenNew(set1),
               seq_cst |-> is_seq_cst(success),
               value |-> IF expected = -1 THEN stores[index].value + new ELSE new,
               by |-> e.set.active,
               order |-> success,
               at |-> e.set.threads[e.set.active].causality,
               rmw |-> TRUE]
    IN  IF ~ok
        THEN [e |-> [e EXCEPT
                       !.objs.atomic[x].history[index].first_seen = seen,
                       !.set = sync_load(stores[index].sync, e.set, failure)],
              index |-> index, ok |-> FALSE]
        ELSE [e |-> [e EXCEPT
                       !.objs.atomic[x].history =
                           Append([stores EXCEPT ![index].first_seen = seen], st),
                       !.set = r.set],
              index |-> index, ok |-> TRUE]

\* State::rmw under rt::synchronize.  The closure f of the wrapper is a
\* compare-exchange when expected # -1 (it fails unless the newest value is
\* expected, and writes new) and a fetch-add of new otherwise.  The result is
\* the execution afterwards, the index read and whether f succeeded.
atomic_rmw(e0, x, expected, new, success, failure) ==
    LET e == synchronize(e0)
        stores == e.objs.atomic[x].history
        index == Len(stores)
        seen == touch(stores[index].first_seen, e.set)
        ok == expected = -1 \/ stores[index].value = expected
        set1 == sync_load(stores[index].sync, e.set, success)
        r == sync_store(stores[index].sync, set1, success)
        st == [sync |-> r.sync,
               first_seen |-> FirstSeenNew(set1),
               seq_cst |-> is_seq_cst(success),
               value |-> IF expected = -1 THEN stores[index].value + new ELSE new,
               by |-> e.set.active,
               order |-> success,
               at |-> e.set.threads[e.set.active].causality,
               rmw |-> TRUE]
    IN  IF ~ok
        THEN [e |-> [e EXCEPT
                       !.objs.atomic[x].history[index].first_seen = seen,
                       !.set = sync_load(stores[index].sync, e.set, failure)],
              index |-> index, ok |-> FALSE]
        ELSE [e |-> [e EXCEPT
                       !.objs.atomic[x].history =
                           Append([stores EXCEPT ![index].first_seen = seen], st),
                       !.set = r.set],
              index |-> index, ok |-> TRUE]

RECURSIVE FenceStores(_, _, _)
\* the inner loop of fence over the stores of one history, from store i on
FenceStores(set, stores, i) ==
    IF i > Len(stores) THEN set
    ELSE FenceStores(
            IF is_seen_by_current(stores[i].first_seen, set)
            THEN sync_load(stores[i].sync, set, "Acquire")
            ELSE set,
            stores, i + 1)

RECURSIVE FenceAtomics(_, _, _)
\* the outer loop of fence over the atomic objects, from object x on
FenceAtomics(set, atomics, x) ==
    IF x > Len(atomics) THEN set
    ELSE FenceAtomics(FenceStores(set, atomics[x].history, 1), atomics, x + 1)

\* fence(order) under rt::synchronize
fence(e0, order) ==
    IF order # "Acquire"
    THEN [e0 EXCEPT !.panic = "only Acquire fences are currently supported"]
    ELSE LET e == synchronize(e0)
         IN  [e EXCEPT !.set = FenceAtomics(e.set, e.objs.atomic, 1)]

\* Atomic::get_mut after its branch: the happens-before assertion
atomic_get_mut(e, x) ==
    IF happens_before(e.objs.atomic[x], e.set.threads[e.set.active].causality)
    THEN e
    ELSE [e EXCEPT !.panic = "get_mut"]

\* the threads other than the active one whose pending operation is on obj
Intent(set, obj) ==
    {k \in 1..Len(set.threads) : k # set.active /\ set.threads[k].operation = obj}

\* Notify::notify after its branch
notify_notify(e, n) ==
    LET st == e.objs.notify[n]
        r == sync_store(st.synchronize, e.set, "Release")
        set1 == IF st.seq_cst THEN seq_cst(r.set) ELSE r.set
        obj == [kind |-> "notify", index |-> n]
        ths == [k \in 1..Len(set1.threads) |->
                   IF k \in Intent(set1, obj)
                   THEN ThreadUnpark(set1.threads[k], set1.threads[set1.active])
                   ELSE set1.threads[k]]
    IN  [e EXCEPT !.objs.notify[n].synchronize = r.sync,
                  !.objs.notify[n].notified = TRUE,
                  !.set = [set1 EXCEPT !.threads = ths]]

\* the branch that opens Notify::wait
notify_wait_branch(e, n) ==
    IF e.objs.notify[n].notified
    THEN branch(e, [kind |-> "notify", index |-> n])
    ELSE branch_acquire(e, [kind |-> "notify", index |-> n], TRUE)

\* Notify::wait that returns without consuming the notification
notify_wait_keeps_flag(e, n) ==
    LET st == e.objs.notify[n]
        set1 == sync_load(st.synchronize, e.set, "Acquire")
        set2 == IF st.seq_cst THEN seq_cst(set1) ELSE set1
    IN  IF ~st.notified THEN [e EXCEPT !.panic = "assert notified"]
        ELSE [e EXCEPT !.set = set2]

\* Notify::wait once the thread runs again
notify_wait(e, n) ==
    LET st == e.objs.notify[n]
        set1 == sync_load(st.synchronize, e.set, "Acquire")
        set2 == IF st.seq_cst THEN seq_cst(set1) ELSE set1
    IN  IF ~st.notified THEN [e EXCEPT !.panic = "assert notified"]
        ELSE [e EXCEPT !.objs.notify[n].notified = FALSE, !.set = set2]

\* Mutex::acquire_lock, first half: branch_acquire(is_locked)
acquire_branch(e, m) ==
    branch_acquire(e, [kind |-> "mutex", index |-> m], e.objs.mutex[m].lock # 0)

\* Mutex::acquire_lock, second half: the assertion on post_acquire, which takes
\* the lock, acquires its causality and blocks the other threads that want it
post_acquire(e, m) ==
    LET st == e.objs.mutex[m]
        set1 == sync_load(st.synchronize, e.set, "Acquire")
        set2 == IF st.seq_cst THEN seq_cst(set1) ELSE set1
        obj == [kind |-> "mutex", index |-> m]
        ths == [k \in 1..Len(set2.threads) |->
                   IF k \in Intent(set2, obj)
                   THEN [set2.threads[k] EXCEPT !.state = "Blocked"]
                   ELSE set2.threads[k]]
    IN  IF st.lock # 0 THEN [e EXCEPT !.panic = "expected to be able to acquire lock"]
        ELSE [e EXCEPT !.objs.mutex[m].lock = e.set.active,
                       !.set = [set2 EXCEPT !.threads = ths]]

\* Mutex::release_lock: the lock is freed, its causality released, and the
\* threads that want the mutex become runnable
release_lock(e, m) ==
    LET st == e.objs.mutex[m]
        r == sync_store(st.synchronize, e.set, "Release")
        set1 == IF st.seq_cst THEN seq_cst(r.set) ELSE r.set
        obj == [kind |-> "mutex", index |-> m]
        ths == [k \in 1..Len(set1.threads) |->
                   IF k \in Intent(set1, obj)
                   THEN [set1.threads[k] EXCEPT !.state = "Runnable"]
                   ELSE set1.threads[k]]
    IN  [e EXCEPT !.objs.mutex[m].lock = 0,
                  !.objs.mutex[m].synchronize = r.sync,
                  !.set = [set1 EXCEPT !.threads = ths]]

\* Condvar::wait after its branch_opaque, up to and including rt::park: the
\* thread joins the waiters, releases the mutex and parks
condvar_wait_park(e, c, m) ==
    park(release_lock(
        [e EXCEPT !.objs.condvar[c].waiters = Append(@, e.set.active)], m))

\* notify_one that dequeues the waiter and does not unpark it
condvar_notify_one_no_unpark(e, c) ==
    LET ws == e.objs.condvar[c].waiters
    IN  IF Len(ws) = 0 THEN e
        ELSE [e EXCEPT !.objs.condvar[c].waiters = Tail(ws)]

\* Condvar::notify_one after its branch_opaque
condvar_notify_one(e, c) ==
    LET ws == e.objs.condvar[c].waiters
    IN  IF Len(ws) = 0 THEN e
        ELSE [e EXCEPT !.objs.condvar[c].waiters = Tail(ws),
                       !.set = SetUnpark(e.set, Head(ws))]

\* Condvar::notify_all after its branch_opaque
RECURSIVE UnparkAll(_, _)
UnparkAll(set, ws) ==
    IF Len(ws) = 0 THEN set ELSE UnparkAll(SetUnpark(set, Head(ws)), Tail(ws))

condvar_notify_all(e, c) ==
    [e EXCEPT !.objs.condvar[c].waiters = << >>,
              !.set = UnparkAll(e.set, e.objs.condvar[c].waiters)]

\* Allocation::new
allocation_new(e) == [e EXCEPT !.objs.alloc = Append(@, [is_dropped |-> FALSE])]

\* Drop for Allocation
allocation_drop(e, a) == [e EXCEPT !.objs.alloc[a].is_dropped = TRUE]

\* check_for_leaks that looks at the newest allocation only
check_for_leaks_last(e) ==
    IF Len(e.objs.alloc) = 0 \/ e.objs.alloc[Len(e.objs.alloc)].is_dropped
    THEN e
    ELSE [e EXCEPT !.panic = "object leaked"]

\* alloc::State::check_for_leaks over every allocation of the object store
check_for_leaks(e) ==
    IF \A a \in 1..Len(e.objs.alloc) : e.objs.alloc[a].is_dropped
    THEN e
    ELSE [e EXCEPT !.panic = "object leaked"]

\* alloc(ptr): a fresh allocation tracked under the raw address
alloc_raw(e, ptr) ==
    LET e1 == allocation_new(e)
    IN  IF \E r \in e.objs.raw_allocations : r[1] = ptr
        THEN [e1 EXCEPT !.panic = "pointer already tracked"]
        ELSE [e1 EXCEPT !.objs.raw_allocations = @ \cup {<< ptr, Len(e1.objs.alloc) >>}]

\* dealloc(ptr): the allocation is removed from the map and dropped
dealloc_raw(e, ptr) ==
    LET R == {r \in e.objs.raw_allocations : r[1] = ptr}
    IN  IF R = {} THEN [e EXCEPT !.panic = "pointer not tracked"]
        ELSE LET r == CHOOSE r \in R : TRUE
             IN  allocation_drop([e EXCEPT !.objs.raw_allocations = @ \ R], r[2])

-----------------------------------------------------------------------------
(* The closures under test.  A thread's body is a sequence of steps; each  *)
(* step is either a branch point of the engine (it ends in a call of       *)
(* Execution::schedule), the body of an engine operation, or a statement   *)
(* of the closure itself.                                                  *)

Obj(kind, index) == [kind |-> kind, index |-> index]

I(op, obj, ord, v) == [op |-> op, obj |-> obj, ord |-> ord, v |-> v]

NewAtomicI(value) == << I("atomic_new", NoOperation, "", value) >>

SpawnI == << I("spawn", NoOperation, "", 0) >>

StoreI(x, ord, value) ==
    << I("branch", Obj("atomic", x), "", 0), I("store", Obj("atomic", x), ord, value) >>

LoadI(x, ord) ==
    << I("branch", Obj("atomic", x), "", 0), I("load", Obj("atomic", x), ord, 0) >>

GetMutI(x) ==
    << I("branch", Obj("atomic", x), "", 0), I("get_mut", Obj("atomic", x), "", 0) >>

\* Atomic::rmw: v holds the closure (expected, new) and the failure ordering
RmwI(x, expected, new, success, failure) ==
    << I("branch", Obj("atomic", x), "", 0),
       I("rmw", Obj("atomic", x), success,
         [expected |-> expected, new |-> new, failure |-> failure]) >>

FenceI(ord) == << I("fence", NoOperation, ord, 0) >>

UnparkI(t) == << I("unpark", NoOperation, "", t) >>

\* JoinHandle::join of thread t: a wait on the Notify the thread signals at its end
JoinI(t) ==
    << I("notify_wait_branch", Obj("notify", t), "", 0),
       I("notify_wait", Obj("notify", t), "", 0) >>

\* the end of a spawned thread t: it signals its JoinHandle and terminates
EndI(t) ==
    << I("branch", Obj("notify", t), "", 0),
       I("notify", Obj("notify", t), "", 0),
       I("thread_done", NoOperation, "", 0) >>

DoneI == << I("thread_done", NoOperation, "", 0) >>

LockI(m) ==
    << I("acquire_branch", Obj("mutex", m), "", 0),
       I("post_acquire", Obj("mutex", m), "", 0) >>

UnlockI(m) == << I("release_lock", Obj("mutex", m), "", 0) >>

WaitI(c, m) ==
    << I("branch", Obj("condvar", c), "", 0),
       I("condvar_wait_park", Obj("condvar", c), "", m),
       I("acquire_branch", Obj("mutex", m), "", 0),
       I("post_acquire", Obj("mutex", m), "", 0) >>

NotifyOneI(c) ==
    << I("branch", Obj("condvar", c), "", 0),
       I("notify_one", Obj("condvar", c), "", 0) >>

LocalI(op, v) == << I(op, NoOperation, "", v) >>

IncrI == LocalI("ctr_read", 0) \o LocalI("ctr_write", 0)

\* tests/atomic.rs valid_get_mut
ValidGetMut ==
    << NewAtomicI(0) \o SpawnI \o JoinI(2) \o GetMutI(1) \o DoneI,
       StoreI(1, "SeqCst", 1) \o EndI(2) >>

\* tests/atomic.rs invalid_get_mut, with the ordering of the store a parameter
InvalidGetMut(ordS) ==
    << NewAtomicI(0) \o SpawnI \o GetMutI(1) \o DoneI,
       StoreI(1, ordS, 1) \o EndI(2) >>

\* store buffering: each thread stores to its atomic, then loads the other's
StoreBuffering(ordS, ordL) ==
    << NewAtomicI(0) \o NewAtomicI(0) \o SpawnI \o SpawnI
         \o JoinI(2) \o JoinI(3) \o DoneI,
       StoreI(1, ordS, 1) \o LoadI(2, ordL) \o EndI(2),
       StoreI(2, ordS, 1) \o LoadI(1, ordL) \o EndI(3) >>

\* message passing: a thread writes data, then publishes a flag; main reads the flag
MessagePassing(ordS, ordL) ==
    << NewAtomicI(0) \o NewAtomicI(0) \o SpawnI
         \o LoadI(2, ordL) \o LoadI(1, "Relaxed") \o DoneI,
       StoreI(1, "Relaxed", 1) \o StoreI(2, ordS, 1) \o EndI(2) >>

\* two threads each increment a counter twice under the mutex
MutexCounter ==
    << SpawnI \o SpawnI \o JoinI(2) \o JoinI(3) \o LocalI("ctr_read", 0) \o DoneI,
       LockI(1) \o IncrI \o UnlockI(1) \o LockI(1) \o IncrI \o UnlockI(1) \o EndI(2),
       LockI(1) \o IncrI \o UnlockI(1) \o LockI(1) \o IncrI \o UnlockI(1) \o EndI(3) >>

\* the consumer (main) takes the mutex and waits on the condvar, then reads the
\* flag; the producer takes the mutex, sets the flag, notifies and releases
CondvarSignal ==
    << SpawnI \o LockI(1) \o WaitI(1, 1) \o LocalI("read_flag", 0) \o UnlockI(1)
         \o JoinI(2) \o DoneI,
       LockI(1) \o LocalI("set_flag", 0) \o NotifyOneI(1) \o UnlockI(1) \o EndI(2) >>

\* as CondvarSignal, with a consumer that waits only while the flag is false
CondvarSignalLoop ==
    << SpawnI \o LockI(1) \o LocalI("jmp_if_flag", 10) \o WaitI(1, 1)
         \o LocalI("jmp", 4) \o LocalI("read_flag", 0) \o UnlockI(1)
         \o JoinI(2) \o DoneI,
       LockI(1) \o LocalI("set_flag", 0) \o NotifyOneI(1) \o UnlockI(1) \o EndI(2) >>

\* a thread that locks the mutex it already holds
SelfLock == << LockI(1) \o LockI(1) \o UnlockI(1) \o DoneI >>

\* allocations, typed and raw, all released before the closure returns
AllocFreed ==
    << LocalI("alloc_new", 0) \o LocalI("alloc_raw", 1) \o SpawnI \o JoinI(2)
         \o LocalI("dealloc_raw", 1) \o DoneI,
       LocalI("alloc_drop", 1) \o EndI(2) >>

\* one allocation is never dropped
AllocLeaked ==
    << LocalI("alloc_new", 0) \o LocalI("alloc_new", 0) \o LocalI("alloc_drop", 2)
         \o DoneI >>

\* a thread that yields while it is alone, and again beside a spawned thread
Yielding ==
    << LocalI("yield", 0) \o SpawnI \o LocalI("yield", 0) \o JoinI(2) \o DoneI,
       EndI(2) >>

\* a thread reads an atomic, yields and reads it again while another thread,
\* which yields too, stores to it
Spin ==
    << NewAtomicI(0) \o SpawnI \o LoadI(1, "Relaxed") \o LocalI("yield", 0)
         \o LoadI(1, "Relaxed") \o JoinI(2) \o DoneI,
       LocalI("yield", 0) \o StoreI(1, "Relaxed", 1) \o EndI(2) >>

\* two threads race on a compare-exchange from 0, so that one of them fails;
\* then one adds to whatever it finds
RmwRace ==
    << NewAtomicI(0) \o SpawnI \o SpawnI \o JoinI(2) \o JoinI(3)
         \o LoadI(1, "SeqCst") \o DoneI,
       RmwI(1, 0, 1, "AcqRel", "Acquire") \o EndI(2),
       RmwI(1, 0, 2, "AcqRel", "Relaxed") \o RmwI(1, -1, 4, "Relaxed", "Relaxed")
         \o EndI(3) >>

\* message passing through a Relaxed load followed by an Acquire fence
FencePassing ==
    << NewAtomicI(0) \o NewAtomicI(0) \o SpawnI
         \o LoadI(2, "Relaxed") \o FenceI("Acquire") \o LoadI(1, "Relaxed")
         \o DoneI,
       StoreI(1, "Relaxed", 1) \o StoreI(2, "Release", 1) \o EndI(2) >>

\* a thread is unparked after it has terminated
UnparkTerminated ==
    << SpawnI \o JoinI(2) \o UnparkI(2) \o LocalI("yield", 0) \o DoneI,
       EndI(2) >>

\* a thread waiting on the condvar is unparked by another thread, without a
\* notification
CondvarUnpark ==
    << SpawnI \o LockI(1) \o WaitI(1, 1) \o UnlockI(1) \o JoinI(2) \o DoneI,
       UnparkI(1) \o EndI(2) >>

\* a thread reads an atomic twice while another thread stores to it twice
Coherence ==
    << NewAtomicI(0) \o SpawnI \o LoadI(1, "Relaxed") \o LoadI(1, "Relaxed")
         \o DoneI,
       StoreI(1, "Relaxed", 1) \o StoreI(1, "Relaxed", 2) \o EndI(2) >>

\* a thread publishes with a Release store, a second thread adds to the atomic
\* with a Relaxed rmw, a third reads it with an Acquire load
ReleaseSequence ==
    << NewAtomicI(0) \o SpawnI \o SpawnI \o StoreI(1, "Release", 1)
         \o JoinI(2) \o JoinI(3) \o DoneI,
       RmwI(1, -1, 4, "Relaxed", "Relaxed") \o EndI(2),
       LoadI(1, "Acquire") \o EndI(3) >>

\* one thread publishes with a Release store, a second reads the atomic with a
\* Relaxed load; the main thread joins the second thread only and then
\* executes an Acquire fence without ever reading the atomic
FenceJoined ==
    << NewAtomicI(0) \o SpawnI \o SpawnI \o JoinI(3) \o FenceI("Acquire")
         \o JoinI(2) \o DoneI,
       StoreI(1, "Release", 1) \o EndI(2),
       LoadI(1, "Relaxed") \o EndI(3) >>

\* a fence of an ordering other than Acquire
FenceSeqCst == << NewAtomicI(0) \o FenceI("SeqCst") \o DoneI >>

\* Notify::notify on Notify n
NotifyI(n) ==
    << I("branch", Obj("notify", n), "", 0), I("notify", Obj("notify", n), "", 0) >>

\* a thread waits twice on a Notify (the one no JoinHandle uses) that another
\* thread notifies twice
NotifyTwice ==
    << SpawnI \o JoinI(1) \o JoinI(1) \o JoinI(2) \o DoneI,
       NotifyI(1) \o NotifyI(1) \o EndI(2) >>

\* two threads wait on one Notify that a third thread notifies once
NotifyTwoWaiters ==
    << SpawnI \o SpawnI \o JoinI(1) \o JoinI(2) \o JoinI(3) \o DoneI,
       JoinI(1) \o EndI(2),
       NotifyI(1) \o EndI(3) >>

\* a thread stores twice to an atomic inside a critical section while a second
\* thread loads the atomic
CriticalSection ==
    << NewAtomicI(0) \o SpawnI \o LocalI("set_critical", 0)
         \o StoreI(1, "SeqCst", 1) \o StoreI(1, "SeqCst", 2)
         \o LocalI("unset_critical", 0) \o JoinI(2) \o DoneI,
       LoadI(1, "SeqCst") \o EndI(2) >>

\* the largest preemption bound explored
MaxBound == 1

Sc(name, ordS, ordL, bound) ==
    [name |-> name, ordS |-> ordS, ordL |-> ordL, bound |-> bound]

StoreOrders == {"Relaxed", "Release", "SeqCst"}

LoadOrders == {"Relaxed", "Acquire", "SeqCst"}

Scenarios ==
    {Sc(n, "SeqCst", "SeqCst", -1) :
        n \in {"valid_get_mut", "store_buffering", "mutex_counter", "condvar_signal",
               "condvar_signal_loop", "self_lock", "alloc_freed", "alloc_leaked",
               "yielding", "spin", "rmw_race", "fence_passing",
               "unpark_terminated", "condvar_unpark", "coherence",
               "release_sequence", "fence_joined", "fence_seq_cst",
               "notify_twice", "notify_two_waiters", "critical_section"}}
    \cup {Sc("mutex_counter", "SeqCst", "SeqCst", b) : b \in 0..MaxBound}
    \cup {Sc(n, "SeqCst", "SeqCst", b) :
            n \in {"store_buffering", "release_sequence"}, b \in 1..MaxBound}
    \cup {Sc("invalid_get_mut", o, "SeqCst", -1) : o \in StoreOrders}
    \cup {Sc("message_passing", o, l, -1) : o \in StoreOrders, l \in LoadOrders}

Prog(sc) ==
    CASE sc.name = "valid_get_mut" -> ValidGetMut
      [] sc.name = "invalid_get_mut" -> InvalidGetMut(sc.ordS)
      [] sc.name = "store_buffering" -> StoreBuffering(sc.ordS, sc.ordL)
      [] sc.name = "message_passing" -> MessagePassing(sc.ordS, sc.ordL)
      [] sc.name = "mutex_counter" -> MutexCounter
      [] sc.name = "condvar_signal" -> CondvarSignal
      [] sc.name = "condvar_signal_loop" -> CondvarSignalLoop
      [] sc.name = "self_lock" -> SelfLock
      [] sc.name = "alloc_freed" -> AllocFreed
      [] sc.name = "alloc_leaked" -> AllocLeaked
      [] sc.name = "yielding" -> Yielding
      [] sc.name = "spin" -> Spin
      [] sc.name = "rmw_race" -> RmwRace
      [] sc.name = "fence_passing" -> FencePassing
      [] sc.name = "unpark_terminated" -> UnparkTerminated
      [] sc.name = "condvar_unpark" -> CondvarUnpark
      [] sc.name = "coherence" -> Coherence
      [] sc.name = "release_sequence" -> ReleaseSequence
      [] sc.name = "fence_joined" -> FenceJoined
      [] sc.name = "fence_seq_cst" -> FenceSeqCst
      [] sc.name = "notify_twice" -> NotifyTwice
      [] sc.name = "notify_two_waiters" -> NotifyTwoWaiters
      [] sc.name = "critical_section" -> CriticalSection

\* the objects every closure creates before it does anything else: one mutex,
\* one condvar, and the Notify of each JoinHandle
ObjectsInit ==
    [ObjectsNew EXCEPT
        !.mutex = << [seq_cst |-> TRUE, lock |-> 0, last_access |-> NoAccess,
                      synchronize |-> SynchronizeNew] >>,
        !.condvar = << [last_access |-> NoAccess, waiters |-> << >>] >>,
        !.notify = [t \in Tids |->
                      [seq_cst |-> TRUE, notified |-> FALSE,
                       last_access |-> NoAccess, synchronize |-> SynchronizeNew]]]

-----------------------------------------------------------------------------
(* State                                                                   *)

VARIABLES
    scenario,    \* the closure under test and the configuration of the run
    path,        \* Execution.path
    threads,     \* Execution.threads, the thread Set
    objects,     \* Execution.objects
    panic,       \* the message of the panic that ended the run, "" if none
    pc,          \* per thread, the position in its body
    regs,        \* per thread, the value it last read
    mem,         \* the closure's plain shared data: the counter and the flag
    phase,       \* "run", "checked", "exhausted" or "panicked"
    step_ret,    \* what the last call of Path::step returned: "none" before any
    extra_steps, \* the calls of Path::step made after exhaustion
    paths,       \* history: the decisions of every completed replay
    recorded,    \* history: the alternatives seen on the tape at replay ends
    holders,     \* history: the threads inside a critical section of the mutex
    last_op,     \* history: the engine operation the last step performed
    races,       \* history: the races the last call of schedule found
    raced        \* history: per race found, the decisions that reverse it

vars == << scenario, path, threads, objects, panic, pc, regs, mem, phase,
           step_ret, extra_steps, paths, recorded, holders, last_op, races,
           raced >>

\* the execution value of the current state
Exec == [path |-> path, set |-> threads, objs |-> objects, panic |-> panic,
         races |-> {}]

NoOp == [kind |-> "none", thread |-> 0, x |-> 0, index |-> 0, order |-> "",
         before |-> VVNew, sc |-> VVNew, sched |-> FALSE,
         seed |-> << >>, seen |-> {}, yielded |-> {}]

Op(kind, x, index, order, sched) ==
    [kind |-> kind, thread |-> threads.active, x |-> x, index |-> index,
     order |-> order,
     before |-> VVInc(threads.threads[threads.active].causality, threads.active),
     sc |-> threads.seq_cst_causality,
     sched |-> sched,
     seed |-> << >>, seen |-> {}, yielded |-> {}]

MemInit == [counter |-> 0, flag |-> FALSE]

Running == phase = "run" /\ threads.active # 0

Me == threads.active

Cur == Prog(scenario)[Me][pc[Me]]

\* the decision taken at tape position k: the thread scheduled, or the store read
Decision(p, k) ==
    LET b == p.branches[k]
    IN  IF b.kind = "Schedule"
        THEN << "Schedule", active(p.schedules[b.idx].threads) >>
        ELSE << "Write", p.writes[b.idx][1] >>

\* the decisions of the whole tape
Decisions(p) == [k \in 1..Len(p.branches) |-> Decision(p, k)]

\* the Schedule record at point pid of a path (0-based, as Access.path_id)
ScheduleAt(p, pid) == p.schedules[p.branches[pid + 1].idx]

\* thread k is marked for exploration in a Schedule record: it is waiting to
\* be scheduled there, is scheduled there, or has been
Marked(sch, k) ==
    k <= Len(sch.threads) /\ sch.threads[k] \in {"Pending", "Active", "Visited"}

\* the execution value e becomes the state; a panic ends the run
Commit(e) ==
    /\ path' = e.path
    /\ threads' = e.set
    /\ objects' = e.objs
    /\ panic' = e.panic
    /\ phase' = IF e.panic # "" THEN "panicked" ELSE phase
    /\ pc' = [pc EXCEPT ![Me] = @ + 1]
    /\ races' = e.races
    /\ raced' = raced \cup
          {[dec |-> Append(SubSeq(Decisions(e.path), 1, r[1]),
                           << "Schedule", r[2] >>),
            marked |-> Marked(ScheduleAt(e.path, r[1]), r[2])] : r \in e.races}
    /\ UNCHANGED << scenario, step_ret, extra_steps, paths, recorded >>

Init ==
    /\ scenario \in Scenarios
    /\ path = PathNew(MaxBranches, scenario.bound)
    /\ threads = SetNew
    /\ objects = ObjectsInit
    /\ panic = ""
    /\ pc = [t \in Tids |-> 1]
    /\ regs = [t \in Tids |-> -1]
    /\ mem = MemInit
    /\ phase = "run"
    /\ step_ret = "none"
    /\ extra_steps = 0
    /\ paths = << >>
    /\ recorded = {}
    /\ holders = {}
    /\ last_op = NoOp
    /\ races = {}
    /\ raced = {}

-----------------------------------------------------------------------------
(* Actions: the active thread performs the step at its pc                  *)

\* Atomic::new
AtomicNew ==
    /\ Running /\ Cur.op = "atomic_new"
    /\ Commit(atomic_new(Exec, Cur.v))
    /\ last_op' = Op("atomic_new", Len(objects.atomic) + 1, 1, "", FALSE)
    /\ UNCHANGED << regs, mem, holders >>

\* thread::spawn: Execution::new_thread
Spawn ==
    /\ Running /\ Cur.op = "spawn"
    /\ Commit(new_thread(Exec))
    /\ last_op' = Op("spawn", 0, 0, "", FALSE)
    /\ UNCHANGED << regs, mem, holders >>

\* the branch that opens an atomic operation, Notify::notify or a condvar
\* operation
Branch ==
    /\ Running /\ Cur.op = "branch"
    /\ Commit(branch(Exec, Cur.obj))
    /\ last_op' = Op("branch", Cur.obj.index, 0, "", TRUE)
    /\ UNCHANGED << regs, mem, holders >>

\* Atomic::load after its branch
Load ==
    /\ Running /\ Cur.op = "load"
    /\ LET r == atomic_load(Exec, Cur.obj.index, Cur.ord)
       IN  /\ Commit(r.e)
           /\ regs' = IF r.index = 0 THEN regs
                      ELSE [regs EXCEPT ![Me] =
                              objects.atomic[Cur.obj.index].history[r.index].value]
           /\ last_op' =
                 LET set == synchronize(Exec).set
                     stores == objects.atomic[Cur.obj.index].history
                 IN  [Op("load", Cur.obj.index, r.index, Cur.ord, FALSE) EXCEPT
                        !.seed = pick_store_seed(stores, set, Cur.ord),
                        !.seen = {j \in 1..Len(stores) :
                                    is_seen_by_current(stores[j].first_seen, set)},
                        !.yielded = {j \in 1..Len(stores) :
                                    is_seen_before_yield(stores[j].first_seen, set)}]
    /\ UNCHANGED << mem, holders >>

\* Atomic::store after its branch
Store ==
    /\ Running /\ Cur.op = "store"
    /\ Commit(atomic_store(Exec, Cur.obj.index, Cur.ord, Cur.v))
    /\ last_op' = Op("store", Cur.obj.index,
                     Len(objects.atomic[Cur.obj.index].history) + 1, Cur.ord, FALSE)
    /\ UNCHANGED << regs, mem, holders >>

\* Atomic::get_mut after its branch; the wrapper then reads the newest value
GetMut ==
    /\ Running /\ Cur.op = "get_mut"
    /\ Commit(atomic_get_mut(Exec, Cur.obj.index))
    /\ regs' = [regs EXCEPT ![Me] =
                  LET h == objects.atomic[Cur.obj.index].history
                  IN  h[Len(h)].value]
    /\ last_op' = Op("get_mut", Cur.obj.index, 0, "", FALSE)
    /\ UNCHANGED << mem, holders >>

\* Atomic::rmw after its branch; the wrapper returns the value it read
Rmw ==
    /\ Running /\ Cur.op = "rmw"
    /\ LET r == atomic_rmw(Exec, Cur.obj.index, Cur.v.expected, Cur.v.new,
                           Cur.ord, Cur.v.failure)
       IN  /\ Commit(r.e)
           /\ regs' = [regs EXCEPT ![Me] =
                          objects.atomic[Cur.obj.index].history[r.index].value]
           /\ last_op' = Op(IF r.ok THEN "rmw" ELSE "rmw_failed", Cur.obj.index,
                            r.index, IF r.ok THEN Cur.ord ELSE Cur.v.failure, FALSE)
    /\ UNCHANGED << mem, holders >>

\* fence
Fence ==
    /\ Running /\ Cur.op = "fence"
    /\ Commit(fence(Exec, Cur.ord))
    /\ last_op' = Op("fence", 0, 0, Cur.ord, FALSE)
    /\ UNCHANGED << regs, mem, holders >>

\* thread unpark: Execution::unpark_thread
Unpark ==
    /\ Running /\ Cur.op = "unpark"
    /\ Commit(unpark_thread(Exec, Cur.v))
    /\ last_op' = Op("unpark", Cur.v, 0, "", FALSE)
    /\ UNCHANGED << regs, mem, holders >>

\* Notify::notify after its branch
NotifyNotify ==
    /\ Running /\ Cur.op = "notify"
    /\ Commit(notify_notify(Exec, Cur.obj.index))
    /\ last_op' = Op("notify", Cur.obj.index, 0, "", FALSE)
    /\ UNCHANGED << regs, mem, holders >>

\* Notify::wait, its branch
NotifyWaitBranch ==
    /\ Running /\ Cur.op = "notify_wait_branch"
    /\ Commit(notify_wait_branch(Exec, Cur.obj.index))
    /\ last_op' = Op("notify_wait_branch", Cur.obj.index, 0, "", TRUE)
    /\ UNCHANGED << regs, mem, holders >>

\* Notify::wait, after its branch
NotifyWait ==
    /\ Running /\ Cur.op = "notify_wait"
    /\ Commit(notify_wait(Exec, Cur.obj.index))
    /\ last_op' = Op("notify_wait", Cur.obj.index, 0, "", FALSE)
    /\ UNCHANGED << regs, mem, holders >>

\* Mutex::acquire_lock, its branch
AcquireBranch ==
    /\ Running /\ Cur.op = "acquire_branch"
    /\ Commit(acquire_branch(Exec, Cur.obj.index))
    /\ last_op' = Op("acquire_branch", Cur.obj.index, 0, "", TRUE)
    /\ UNCHANGED << regs, mem, holders >>

\* Mutex::acquire_lock, after its branch
PostAcquire ==
    /\ Running /\ Cur.op = "post_acquire"
    /\ Commit(post_acquire(Exec, Cur.obj.index))
    /\ holders' = holders \cup {Me}
    /\ last_op' = Op("post_acquire", Cur.obj.index, 0, "", FALSE)
    /\ UNCHANGED << regs, mem >>

\* Mutex::release_lock
ReleaseLock ==
    /\ Running /\ Cur.op = "release_lock"
    /\ Commit(release_lock(Exec, Cur.obj.index))
    /\ holders' = holders \ {Me}
    /\ last_op' = Op("release_lock", Cur.obj.index, 0, "", FALSE)
    /\ UNCHANGED << regs, mem >>

\* Condvar::wait after its branch: enqueue, release the mutex, park
CondvarWaitPark ==
    /\ Running /\ Cur.op = "condvar_wait_park"
    /\ Commit(condvar_wait_park(Exec, Cur.obj.index, Cur.v))
    /\ holders' = holders \ {Me}
    /\ last_op' = Op("condvar_wait_park", Cur.obj.index, 0, "", TRUE)
    /\ UNCHANGED << regs, mem >>

\* Condvar::notify_one after its branch
CondvarNotifyOne ==
    /\ Running /\ Cur.op = "notify_one"
    /\ Commit(condvar_notify_one(Exec, Cur.obj.index))
    /\ last_op' = Op("notify_one", Cur.obj.index,
                     IF Len(objects.condvar[Cur.obj.index].waiters) = 0 THEN 0
                     ELSE Head(objects.condvar[Cur.obj.index].waiters), "", FALSE)
    /\ UNCHANGED << regs, mem, holders >>

\* Allocation::new, Drop for Allocation, alloc and dealloc
Alloc ==
    /\ Running /\ Cur.op \in {"alloc_new", "alloc_drop", "alloc_raw", "dealloc_raw"}
    /\ Commit(CASE Cur.op = "alloc_new" -> allocation_new(Exec)
                [] Cur.op = "alloc_drop" -> allocation_drop(Exec, Cur.v)
                [] Cur.op = "alloc_raw" -> alloc_raw(Exec, Cur.v)
                [] Cur.op = "dealloc_raw" -> dealloc_raw(Exec, Cur.v))
    /\ last_op' = Op(Cur.op, Cur.v, 0, "", FALSE)
    /\ UNCHANGED << regs, mem, holders >>

\* a statement of the closure on its own data
Local ==
    /\ Running
    /\ Cur.op \in {"ctr_read", "ctr_write", "set_flag", "read_flag", "jmp", "jmp_if_flag"}
    /\ regs' = CASE Cur.op = "ctr_read" -> [regs EXCEPT ![Me] = mem.counter]
                 [] Cur.op = "read_flag" ->
                        [regs EXCEPT ![Me] = IF mem.flag THEN 1 ELSE 0]
                 [] OTHER -> regs
    /\ mem' = CASE Cur.op = "ctr_write" -> [mem EXCEPT !.counter = regs[Me] + 1]
                [] Cur.op = "set_flag" -> [mem EXCEPT !.flag = TRUE]
                [] OTHER -> mem
    /\ pc' = [pc EXCEPT ![Me] =
                IF Cur.op = "jmp" \/ (Cur.op = "jmp_if_flag" /\ mem.flag)
                THEN Cur.v ELSE @ + 1]
    /\ last_op' = Op(Cur.op, 0, 0, "", FALSE)
    /\ UNCHANGED << scenario, path, threads, objects, panic, phase, step_ret,
                    extra_steps, paths, recorded, holders, races, raced >>

\* Execution::set_critical and Execution::unset_critical
Critical ==
    /\ Running /\ Cur.op \in {"set_critical", "unset_critical"}
    /\ Commit(IF Cur.op = "set_critical" THEN set_critical(Exec)
              ELSE unset_critical(Exec))
    /\ last_op' = Op(Cur.op, 0, 0, "", FALSE)
    /\ UNCHANGED << regs, mem, holders >>

\* rt::yield_now
Yield ==
    /\ Running /\ Cur.op = "yield"
    /\ Commit(yield_now(Exec))
    /\ last_op' = Op("yield", 0, 0, "", TRUE)
    /\ UNCHANGED << regs, mem, holders >>

\* rt::thread_done
ThreadDone ==
    /\ Running /\ Cur.op = "thread_done"
    /\ Commit(thread_done(Exec))
    /\ last_op' = Op("thread_done", 0, 0, "", TRUE)
    /\ UNCHANGED << regs, mem, holders >>

-----------------------------------------------------------------------------
(* The driver: at the end of a replay the leak check, then Execution::step *)

\* the alternatives the tape still holds: a Pending thread at a Schedule, a
\* queued store index at a Write, each with the decisions that lead to it
Alternatives(p) ==
    LET d == Decisions(p)
        At(k) ==
            LET b == p.branches[k]
            IN  IF b.kind = "Schedule"
                THEN {<< "Schedule", t >> :
                        t \in {j \in 1..Len(p.schedules[b.idx].threads) :
                                 is_pending(p.schedules[b.idx].threads[j])}}
                ELSE {<< "Write", p.writes[b.idx][j] >> :
                        j \in 2..Len(p.writes[b.idx])}
    IN  UNION {{Append(SubSeq(d, 1, k - 1), a) : a \in At(k)} :
                 k \in 1..Len(p.branches)}

\* the end of a replay: every thread has terminated and the objects are
\* checked for leaks
CheckForLeaks ==
    /\ phase = "run" /\ threads.active = 0
    /\ LET e == check_for_leaks(Exec)
       IN  /\ panic' = e.panic
           /\ phase' = IF e.panic # "" THEN "panicked" ELSE "checked"
    /\ last_op' = [NoOp EXCEPT !.kind = "check_for_leaks"]
    /\ UNCHANGED << scenario, path, threads, objects, pc, regs, mem, step_ret,
                    extra_steps, paths, recorded, holders, races, raced >>

\* Execution::step: objects are cleared and the Path steps; when it has more
\* to explore the thread set is reset and the closure runs again
ExecutionStep ==
    /\ phase = "checked"
    /\ LET r == PathStep(path)
       IN  /\ path' = r.path
           /\ step_ret' = IF r.ret THEN "true" ELSE "false"
           /\ phase' = IF r.ret THEN "run" ELSE "exhausted"
           /\ threads' = IF r.ret THEN SetNew ELSE threads
           /\ objects' = IF r.ret THEN ObjectsInit ELSE ObjectsNew
           /\ pc' = IF r.ret THEN [t \in Tids |-> 1] ELSE pc
           /\ regs' = IF r.ret THEN [t \in Tids |-> -1] ELSE regs
           /\ mem' = IF r.ret THEN MemInit ELSE mem
    /\ paths' = Append(paths, Decisions(path))
    /\ recorded' = recorded \cup Alternatives(path)
    /\ last_op' = [NoOp EXCEPT !.kind = "step"]
    /\ races' = {}
    /\ UNCHANGED << scenario, panic, extra_steps, holders, raced >>

\* Path::step called again on the exhausted Path
StepAgain ==
    /\ phase = "exhausted" /\ extra_steps < MaxExtraSteps
    /\ LET r == PathStep(path)
       IN  /\ path' = r.path
           /\ step_ret' = IF r.ret THEN "true" ELSE "false"
    /\ extra_steps' = extra_steps + 1
    /\ last_op' = [NoOp EXCEPT !.kind = "step"]
    /\ UNCHANGED << scenario, threads, objects, panic, pc, regs, mem, phase,
                    paths, recorded, holders, races, raced >>

Next ==
    \/ AtomicNew
    \/ Spawn
    \/ Branch
    \/ Load
    \/ Store
    \/ GetMut
    \/ Rmw
    \/ Fence
    \/ Unpark
    \/ NotifyNotify
    \/ NotifyWaitBranch
    \/ NotifyWait
    \/ AcquireBranch
    \/ PostAcquire
    \/ ReleaseLock
    \/ CondvarWaitPark
    \/ CondvarNotifyOne
    \/ Alloc
    \/ Local
    \/ Critical
    \/ Yield
    \/ ThreadDone
    \/ CheckForLeaks
    \/ ExecutionStep
    \/ StepAgain

Spec == Init /\ [][Next]_vars

-----------------------------------------------------------------------------
(* Properties                                                              *)

Thr(t) == threads.threads[t]

NumThreads == Len(threads.threads)

\* the decisions d start with the decisions a
IsPrefix(a, d) == Len(a) <= Len(d) /\ SubSeq(d, 1, Len(a)) = a

\* the steps of the closure's threads
ThreadStep ==
    \/ AtomicNew \/ Spawn \/ Branch \/ Load \/ Store \/ GetMut \/ Rmw \/ Fence
    \/ Unpark \/ NotifyNotify \/ NotifyWaitBranch \/ NotifyWait
    \/ AcquireBranch \/ PostAcquire \/ ReleaseLock \/ CondvarWaitPark
    \/ CondvarNotifyOne \/ Alloc \/ Local \/ Critical \/ Yield \/ ThreadDone

\* the exploration under fair scheduling: the active thread of a running
\* replay goes on to its next step (weak fairness of ThreadStep, which is
\* enabled exactly when Running holds), and the driver checks for leaks and
\* calls Execution::step when a replay has ended
FairSpec ==
    /\ Spec
    /\ []<>(~Running) \/ []<><<ThreadStep>>_vars
    /\ WF_vars(CheckForLeaks)
    /\ WF_vars(ExecutionStep)

\* C1: without a preemption bound no two replays of one exploration follow the
\* same Path, and when the exploration ends every alternative that was recorded
\* on the tape (a Pending thread at a Schedule, a queued store index at a
\* Write) has been taken by some replay.
C1_DistinctExhaustive ==
    scenario.bound = -1 =>
        /\ \A i, j \in 1..Len(paths) : i # j => paths[i] # paths[j]
        /\ phase = "exhausted" =>
              \A a \in recorded : \E i \in 1..Len(paths) : IsPrefix(a, paths[i])

\* an exploration has ended after it recorded, and took, both a thread
\* alternative and a write alternative
C1_Witness ==
    /\ scenario.bound = -1
    /\ phase = "exhausted"
    /\ \E a \in recorded : a[Len(a)][1] = "Schedule"
    /\ \E a \in recorded : a[Len(a)][1] = "Write"

\* C2, the state part: Path::step returned false exactly when the tape is
\* empty, and then schedules and writes are empty too, pos is 0 and no new
\* execution is running.
C2_StepFalseIffEmpty ==
    step_ret # "none" =>
        /\ step_ret = "false" <=> Len(path.branches) = 0
        /\ step_ret = "false" =>
              /\ Len(path.schedules) = 0 /\ Len(path.writes) = 0 /\ path.pos = 0
              /\ phase = "exhausted"

\* C2, the step part: once Path::step has returned false every later call
\* returns false and changes nothing of the Path or of the execution.
C2_StepFalseStays ==
    step_ret = "false" =>
        /\ step_ret' = "false"
        /\ path' = path
        /\ threads' = threads /\ objects' = objects /\ phase' = phase
        /\ paths' = paths

\* C2: Path.step returns false exactly when the tape has become empty; after
\* that every call returns false and changes nothing, and Execution.step has
\* yielded no new execution.
C2_StepIdempotent == [](C2_StepFalseIffEmpty) /\ [][C2_StepFalseStays]_vars

\* Path::step has been called again on an exhausted Path
C2_Witness == step_ret = "false" /\ extra_steps > 0 /\ Len(paths) > 1

ReleaseOrStronger(o) == o \in {"Release", "AcqRel", "SeqCst"}

AcquireOrStronger(o) == o \in {"Acquire", "AcqRel", "SeqCst"}

\* a load has just returned
Loaded == last_op.kind = "load" /\ last_op.index # 0

LoadedStore == objects.atomic[last_op.x].history[last_op.index]

\* C3: right after a load of ordering Acquire or stronger that reads a store
\* made with Release or stronger, the loading thread's causality is pointwise
\* >= the storing thread's causality at the store; a Relaxed load leaves the
\* loading thread's causality as it was on entry, and the load of a Relaxed
\* store (State::store; the store of an rmw continues a release sequence and
\* is the matter of C22) adds nothing from that store (a SeqCst load still
\* joins the seq-cst causality of the thread set).
C3_ReleaseAcquire ==
    Loaded =>
        /\ (ReleaseOrStronger(LoadedStore.order) /\ AcquireOrStronger(last_op.order))
              => VVLe(LoadedStore.at, Thr(last_op.thread).causality)
        /\ last_op.order = "Relaxed"
              => Thr(last_op.thread).causality = last_op.before
        /\ (LoadedStore.order = "Relaxed" /\ ~LoadedStore.rmw)
              => Thr(last_op.thread).causality =
                    IF last_op.order = "SeqCst"
                    THEN VVJoin(last_op.before, last_op.sc)
                    ELSE last_op.before

\* an Acquire load by one thread has read the Release store of another, and
\* learned something from it
C3_Witness ==
    /\ Loaded
    /\ LoadedStore.order = "Release" /\ last_op.order = "Acquire"
    /\ LoadedStore.by # last_op.thread
    /\ Thr(last_op.thread).causality # last_op.before

\* C4: in the store-buffering closure with every operation SeqCst, no replay
\* has both loads read the initial store.
C4_StoreBuffering ==
    (scenario.name = "store_buffering" /\ scenario.ordS = "SeqCst"
        /\ scenario.ordL = "SeqCst")
        => ~(regs[2] = 0 /\ regs[3] = 0)

\* both loads were done and one of them read the initial store
C4_Witness ==
    /\ scenario.name = "store_buffering"
    /\ scenario.ordS = "SeqCst" /\ scenario.ordL = "SeqCst"
    /\ regs[2] = 0 /\ regs[3] = 1

\* C5: in valid_get_mut no replay panics (the happens-before assertion of
\* get_mut holds) and get_mut observes 1.
C5_ValidGetMut ==
    scenario.name = "valid_get_mut" =>
        /\ panic = ""
        /\ last_op.kind = "get_mut" => regs[last_op.thread] = 1

\* get_mut has run in valid_get_mut, after the spawned thread's store
C5_Witness ==
    /\ scenario.name = "valid_get_mut"
    /\ last_op.kind = "get_mut"
    /\ Len(objects.atomic[1].history) = 2

\* store s happens-before thread t: t's causality covers the storing thread's
\* causality at the store
StoreHappensBefore(s, t) == VVLe(s.at, Thr(t).causality)

\* C6: get_mut panics whenever the history of the atomic holds a store, of any
\* ordering, that does not happen-before the calling thread (so that some
\* replay of invalid_get_mut panics).
C6_GetMutPanics ==
    last_op.kind = "get_mut" =>
        ((\E k \in 1..Len(objects.atomic[last_op.x].history) :
              ~StoreHappensBefore(objects.atomic[last_op.x].history[k], last_op.thread))
          => panic = "get_mut")

\* the main thread has passed both joins of the mutex closure
MutexJoined == pc[1] > Len(MutexCounter[1]) - 2

\* C7: in the mutex closure at most one thread is inside the mutex at a time,
\* the counter is 4 once both threads are joined, and no replay panics
\* (neither the deadlock assertion nor the assertion of acquire_lock).
C7_MutexCounter ==
    scenario.name = "mutex_counter" =>
        /\ Cardinality(holders) <= 1
        /\ \A t \in holders : objects.mutex[1].lock = t
        /\ MutexJoined => mem.counter = 4
        /\ panic = ""

\* a thread is blocked on the mutex while another holds it, and the
\* exploration goes on to its end with the counter read as 4
C7_Witness ==
    /\ scenario.name = "mutex_counter"
    /\ \E t \in 1..NumThreads :
          /\ is_blocked(Thr(t))
          /\ Thr(t).operation = Obj("mutex", 1)
          /\ holders # {} /\ t \notin holders

\* the consumer (thread 1) is past its read of the flag
ConsumerRead(prog) ==
    \E k \in 1..Len(prog[1]) : prog[1][k].op = "read_flag" /\ pc[1] > k

\* C8 as stated: in the condvar closure every replay ends with the consumer
\* woken, holding M again and observing flag = true, and no replay deadlocks.
C8_Original ==
    scenario.name = "condvar_signal" =>
        /\ panic = ""
        /\ phase = "checked" => regs[1] = 1

\* C8 as amended: a consumer that is already waiting when notify_one is called
\* is woken, holds M again when it reads the flag and reads true; a replay
\* deadlocks only when notify_one ran before the consumer's wait (the consumer
\* is still queued on the condvar and the producer has terminated); a consumer
\* that waits only while the flag is false reads true in every replay and no
\* replay of it deadlocks.
C8_CondvarSignal ==
    /\ scenario.name \in {"condvar_signal", "condvar_signal_loop"} =>
          /\ panic \in {"", "deadlock"}
          /\ (Running /\ Me = 1 /\ Cur.op = "read_flag") =>
                (mem.flag /\ 1 \in holders /\ objects.mutex[1].lock = 1)
          /\ ConsumerRead(Prog(scenario)) => regs[1] = 1
          /\ phase \in {"checked", "exhausted"} => regs[1] = 1
          /\ panic = "deadlock" =>
                /\ objects.condvar[1].waiters = << 1 >>
                /\ is_terminated(Thr(2))
                /\ mem.flag
    /\ scenario.name = "condvar_signal_loop" => panic = ""

\* the consumer waited, was woken by notify_one and has read the flag
C8_Witness ==
    /\ scenario.name = "condvar_signal"
    /\ last_op.kind = "read_flag" /\ regs[1] = 1
    /\ objects.condvar[1].waiters = << >>

SomeLive == \E t \in 1..NumThreads : ~is_terminated(Thr(t))

\* C9: when a call of schedule ends with no thread to run (no thread is
\* Runnable or Yield) while some thread is not Terminated, the replay panics
\* with the deadlock report, and only then; when every thread is Terminated
\* the call returns without panic.
C9_Deadlock ==
    (last_op.sched /\ panic \in {"", "deadlock"}) =>
        /\ threads.active = 0 <=>
              ~\E t \in 1..NumThreads : is_runnable(Thr(t)) \/ is_yield(Thr(t))
        /\ (threads.active = 0 /\ SomeLive) <=> panic = "deadlock"
        /\ ~SomeLive => panic = ""

\* schedule has just reported a deadlock
C9_Witness ==
    /\ last_op.sched /\ panic = "deadlock"
    /\ \E t \in 1..NumThreads : is_blocked(Thr(t))

\* C10, the state part: the leak check panics exactly when an allocation is
\* not dropped, and a drop leaves its allocation dropped.
C10_LeakCheck ==
    /\ last_op.kind = "check_for_leaks" =>
          (panic = "object leaked"
              <=> \E a \in 1..Len(objects.alloc) : ~objects.alloc[a].is_dropped)
    /\ (last_op.kind = "alloc_drop" /\ panic = "") =>
          objects.alloc[last_op.x].is_dropped

\* C10, the step part: within a replay a dropped allocation stays dropped.
C10_DroppedStays ==
    \A a \in 1..Len(objects.alloc) :
        (objects.alloc[a].is_dropped /\ a <= Len(objects'.alloc))
            => objects'.alloc[a].is_dropped

\* C10: at replay end the leak check panics if and only if some tracked
\* allocation is not dropped; a drop sets is_dropped and it stays set for the
\* rest of the replay.
C10_Leak == [](C10_LeakCheck) /\ [][C10_DroppedStays]_vars

\* the leak check has panicked on a store that holds a dropped and an
\* undropped allocation
C10_Witness ==
    /\ panic = "object leaked"
    /\ \E a \in 1..Len(objects.alloc) : objects.alloc[a].is_dropped

\* what identifies a store of a history: everything but its first_seen marks
StoreId(st) == [sync |-> st.sync, seq_cst |-> st.seq_cst, value |-> st.value,
                by |-> st.by, order |-> st.order, at |-> st.at,
                rmw |-> st.rmw]

\* the step stays inside one replay: it is not Execution::step
SameReplay == last_op'.kind # "step"

\* C11, the state part: every atomic's history holds at least one store.
C11_HistoryNonEmpty ==
    \A x \in 1..Len(objects.atomic) : Len(objects.atomic[x].history) >= 1

\* C11, the step part: within a replay every atomic keeps its stores in place;
\* a store or a successful rmw on it adds exactly one store at the end, and
\* every other operation (load, failed rmw, get_mut, fence, an operation on
\* another object) leaves the length as it was.
C11_AppendOnly ==
    SameReplay =>
        \A x \in 1..Len(objects.atomic) :
            LET h == objects.atomic[x].history
                h1 == objects'.atomic[x].history
            IN  /\ x <= Len(objects'.atomic)
                /\ Len(h1) = Len(h) + (IF last_op'.kind \in {"store", "rmw"}
                                            /\ last_op'.x = x
                                        THEN 1 ELSE 0)
                /\ \A k \in 1..Len(h) : StoreId(h1[k]) = StoreId(h[k])

\* C11: every atomic's store history has length >= 1 from creation onward and
\* is append-only within a replay: no load, store, rmw, get_mut or fence
\* removes or reorders a store, a load or failed rmw leaves the length
\* unchanged, and a store or successful rmw increases it by exactly one.
C11_History == [](C11_HistoryNonEmpty) /\ [][C11_AppendOnly]_vars

\* a compare-exchange has just failed on a history that a successful rmw had
\* extended
C11_Witness ==
    /\ last_op.kind = "rmw_failed"
    /\ Len(objects.atomic[last_op.x].history) = 2
    /\ objects.atomic[last_op.x].history[2].by # last_op.thread

\* C12: within a replay every thread's causality and DPOR clock are
\* componentwise non-decreasing: no spawn, unpark, seq_cst, load, store, rmw,
\* fence, notify, wait or schedule step lowers an entry.
C12_ClocksMonotone ==
    [][SameReplay =>
          \A t \in 1..Len(threads.threads) :
              /\ t <= Len(threads'.threads)
              /\ VVLe(threads.threads[t].causality, threads'.threads[t].causality)
              /\ VVLe(threads.threads[t].dpor_vv, threads'.threads[t].dpor_vv)]_vars

\* a thread that had advanced its own clocks has been unparked by another
\* and has learned that thread's causality
C12_Witness ==
    /\ last_op.kind = "notify"
    /\ \E t \in 1..NumThreads :
          /\ t # last_op.thread
          /\ Thr(t).operation = Obj("notify", last_op.x)
          /\ Thr(t).causality[t] > 0 /\ Thr(t).dpor_vv[t] > 0
          /\ Thr(t).causality[last_op.thread] > 0

\* the threads of a Schedule record that have status Active
ActiveIn(sch) == {k \in 1..Len(sch.threads) : is_active(sch.threads[k])}

\* C13: every Schedule record on the Path has at most one Active thread, in
\* every reachable state: also after branch_thread toggled yielded threads
\* because no thread was runnable, and after step promoted a Pending thread.
C13_OneActive ==
    \A j \in 1..Len(path.schedules) : Cardinality(ActiveIn(path.schedules[j])) <= 1

\* a thread that yielded with no runnable thread beside it was toggled to
\* Active and runs on, in a replay that step started by promoting a Pending
\* thread
C13_Witness ==
    /\ last_op.kind = "yield"
    /\ threads.active = last_op.thread /\ is_yield(Thr(threads.active))
    /\ \E j \in 1..Len(path.schedules) :
          /\ \E k \in 1..Len(path.schedules[j].threads) :
                path.schedules[j].threads[k] = "Visited"
          /\ ActiveIn(path.schedules[j]) # {}

\* C14: a thread that is Terminated stays Terminated for the rest of the
\* replay: neither an unpark (Condvar, Notify, unpark_thread) nor the yield
\* re-enabling loop of schedule gives it another state.
C14_TerminatedStays ==
    [][SameReplay =>
          \A t \in 1..Len(threads.threads) :
              is_terminated(threads.threads[t]) =>
                  /\ t <= Len(threads'.threads)
                  /\ is_terminated(threads'.threads[t])]_vars

\* a terminated thread has been unparked, and schedule has then run its yield
\* re-enabling loop
C14_Witness ==
    /\ scenario.name = "unpark_terminated"
    /\ last_op.kind = "yield"
    /\ is_terminated(Thr(2))
    /\ Thr(2).causality = VVJoin(Thr(2).causality, Thr(1).causality)

SynchronizeKinds == {"load", "store", "rmw", "rmw_failed", "fence"}

\* C15 as amended, the state part: a thread is created with its own
\* causality slot above its own DPOR slot.
C15_AtCreation ==
    (last_op.kind = "spawn" /\ panic = "") =>
        Thr(NumThreads).causality[NumThreads] > Thr(NumThreads).dpor_vv[NumThreads]

\* C15 as amended, the step part: within a replay a thread's own DPOR slot
\* grows by one exactly at a call of schedule that selects the thread while
\* it has a pending operation, and its own causality slot grows by one
\* exactly at its atomic load, store, rmw or fence; nothing else changes them.
C15_SlotSteps ==
    (SameReplay /\ panic' = "") =>
        \A t \in 1..Len(threads.threads) :
            /\ threads'.threads[t].causality[t] - threads.threads[t].causality[t]
                  = (IF last_op'.thread = t /\ last_op'.kind \in SynchronizeKinds
                     THEN 1 ELSE 0)
            /\ threads'.threads[t].dpor_vv[t] - threads.threads[t].dpor_vv[t]
                  = (IF last_op'.sched /\ threads'.active = t
                        /\ threads'.threads[t].operation.kind # "none"
                     THEN 1 ELSE 0)

C16_WaitersBlocked ==
    last_op.sched =>
        \A c \in 1..Len(objects.condvar) :
            \A i \in 1..Len(objects.condvar[c].waiters) :
                LET w == objects.condvar[c].waiters[i]
                IN  /\ is_blocked(Thr(w))
                    /\ objects.mutex[1].lock # w

\* C17: the mutex-counter closure explored with preemption_bound = 0 takes
\* strictly fewer replays than with preemption_bound = None (one replay
\* against more than one), and in both runs every replay passes its
\* assertions: the counter is 4 after the joins and nothing panics.
C17_BoundedFewer ==
    scenario.name = "mutex_counter" =>
        /\ panic = ""
        /\ MutexJoined => mem.counter = 4
        /\ phase = "exhausted" =>
              /\ scenario.bound = 0 => Len(paths) = 1
              /\ scenario.bound = -1 => Len(paths) > 1

\* the exploration under preemption_bound = 0 has ended, after schedule found
\* races it did not mark for exploration
C17_Witness ==
    /\ scenario.name = "mutex_counter" /\ scenario.bound = 0
    /\ phase = "exhausted"
    /\ raced # {}
    /\ mem.counter = 4

\* C18: the candidate set of a load is not empty, starts at the newest store,
\* is a contiguous newest-first run of indices, and holds no store older than
\* a store the loading thread has already seen through its causality; the
\* store read is one of the candidates, so the thread never reads a store
\* older than one it has observed.
C18_Candidates ==
    Loaded =>
        LET H == Len(objects.atomic[last_op.x].history)
            seed == last_op.seed
        IN  /\ Len(seed) >= 1
            /\ \A i \in 1..Len(seed) : seed[i] = H + 1 - i
            /\ \A i \in 1..Len(seed) : \A j \in last_op.seen : seed[i] >= j
            /\ \E i \in 1..Len(seed) : seed[i] = last_op.index
            /\ \A j \in last_op.seen : last_op.index >= j

\* a load had more than one candidate, and its walk was cut at a store the
\* thread had seen, leaving out an older store
C18_Witness ==
    /\ Loaded
    /\ Len(last_op.seed) >= 2
    /\ Len(last_op.seed) < Len(objects.atomic[last_op.x].history)
    /\ last_op.seed[Len(last_op.seed)] \in last_op.seen

\* the walk of the last load reached store y: every newer store was included
\* and none of them ended the walk
WalkReached(y) ==
    \A k \in (y + 1)..Len(objects.atomic[last_op.x].history) :
        /\ \E i \in 1..Len(last_op.seed) : last_op.seed[i] = k
        /\ k \notin last_op.seen
        /\ ~(is_seq_cst(last_op.order)
              /\ objects.atomic[last_op.x].history[k].seq_cst)

\* C19 as stated: when the walk of a load reaches a store the loading thread
\* first observed at or before its last yield, that store is a candidate and
\* it is the last one, whether it is the newest store or not.
C19_Original ==
    Loaded =>
        \A y \in last_op.yielded :
            WalkReached(y) => last_op.seed[Len(last_op.seed)] = y

\* C19 as amended: a store the loading thread first observed at or before its
\* last yield is a candidate only when it is the newest store of the history,
\* and then it is the only candidate; when the walk reaches it below newer
\* stores it is left out and the walk stops, so every candidate is newer than
\* it and the load cannot read it again.
C19_SeenBeforeYield ==
    Loaded =>
        LET H == Len(objects.atomic[last_op.x].history)
        IN  \A y \in last_op.yielded :
                /\ y = H => last_op.seed = << H >>
                /\ y < H =>
                      /\ \A i \in 1..Len(last_op.seed) : last_op.seed[i] > y
                      /\ last_op.index > y

\* after a yield a load walked down to a store its thread had observed before
\* the yield, below a newer store of another thread
C19_Witness ==
    /\ Loaded
    /\ \E y \in last_op.yielded :
          /\ y < Len(objects.atomic[last_op.x].history)
          /\ WalkReached(y)
    /\ Thr(last_op.thread).yield_count > 0

\* C20 as stated: without a preemption bound, whenever schedule finds that a
\* thread's pending operation races with the last access to its object, the
\* thread is marked for exploration at that access's Schedule, and when the
\* exploration ends some replay has scheduled the thread at that point.
C20_Original ==
    scenario.bound = -1 =>
        /\ (last_op.sched /\ panic = "") =>
              \A r \in races : Marked(ScheduleAt(path, r[1]), r[2])
        /\ phase = "exhausted" =>
              \A a \in raced : \E i \in 1..Len(paths) : IsPrefix(a.dec, paths[i])

\* C20 as amended: without a preemption bound, when schedule finds that a
\* thread's pending operation races with the last access to its object, then
\* at that access's Schedule: a thread that was runnable there (Skip) is
\* marked for exploration; a thread that was Disabled there is not, and every
\* thread that was Skip there is marked in its place; a thread that had
\* yielded there, or did not exist yet, leaves the Schedule as it was.  When
\* the exploration ends every thread that was marked has been scheduled at
\* that point by some replay.
C20_Backtrack ==
    scenario.bound = -1 =>
        /\ (last_op.sched /\ panic = "") =>
              \A r \in races :
                  LET sch == ScheduleAt(path, r[1])
                  IN  r[2] <= Len(sch.threads) =>
                        /\ sch.threads[r[2]] # "Skip"
                        /\ sch.threads[r[2]] = "Disabled" =>
                              \A k \in 1..Len(sch.threads) : sch.threads[k] # "Skip"
                        /\ sch.threads[r[2]] \notin {"Disabled", "Yield"} =>
                              Marked(sch, r[2])
        /\ phase = "exhausted" =>
              \A a \in raced :
                  a.marked => \E i \in 1..Len(paths) : IsPrefix(a.dec, paths[i])

\* schedule found a race of a thread that was runnable at the earlier access
\* and marked it Pending there; the replay that schedules it there follows
C20_Witness ==
    /\ scenario.bound = -1
    /\ last_op.sched /\ panic = ""
    /\ \E r \in races :
          /\ r[2] <= Len(ScheduleAt(path, r[1]).threads)
          /\ ScheduleAt(path, r[1]).threads[r[2]] = "Pending"
          /\ active(ScheduleAt(path, r[1]).threads) # r[2]

\* an rmw has just run: the closure succeeded, or it failed
RmwDone == last_op'.kind \in {"rmw", "rmw_failed"}

\* C21, the step: State::rmw reads the newest store and leaves the Path as it
\* was.  When the closure fails the history keeps its length and its stores,
\* and the caller's causality is its causality on entry joined with the
\* store's vector exactly when the failure ordering acquires.  When it
\* succeeds one store is appended, made by the caller, and the index returned
\* is that of the store before it.
C21_RmwStep ==
    RmwDone =>
        LET x == last_op'.x
            h == objects.atomic[x].history
            h1 == objects'.atomic[x].history
            n == Len(h)
            t == last_op'.thread
            c1 == threads'.threads[t].causality
        IN  /\ last_op'.index = n
            /\ regs'[t] = h[n].value
            /\ path' = path
            /\ \A k \in 1..n : StoreId(h1[k]) = StoreId(h[k])
            /\ \A u \in 1..Len(threads.threads) :
                  u # t => threads'.threads[u] = threads.threads[u]
            /\ last_op'.kind = "rmw_failed" =>
                  /\ Len(h1) = n
                  /\ last_op'.order \in {"Relaxed", "Release"} => c1 = last_op'.before
                  /\ last_op'.order \in {"Acquire", "AcqRel"} =>
                        c1 = VVJoin(last_op'.before, h[n].sync)
                  /\ last_op'.order = "SeqCst" =>
                        c1 = VVJoin(VVJoin(last_op'.before, h[n].sync), last_op'.sc)
            /\ last_op'.kind = "rmw" =>
                  /\ Len(h1) = n + 1
                  /\ h1[n + 1].by = t
                  /\ h1[n + 1].first_seen[t] # -1

\* C21: an rmw always operates on the newest store and never consults the Path
\* for a write choice; when the closure fails the history is unchanged in
\* length and only sync_load(failure) is applied to the caller; when it
\* succeeds exactly one store is appended and the index returned is that of
\* the predecessor store.
C21_Rmw == [][C21_RmwStep]_vars

\* a compare-exchange with an acquiring failure ordering has failed on a store
\* another thread's rmw had appended, and its thread learned from that store
C21_Witness ==
    /\ last_op.kind = "rmw_failed"
    /\ last_op.order = "Acquire"
    /\ last_op.index = 2
    /\ Len(objects.atomic[last_op.x].history) = 2
    /\ objects.atomic[last_op.x].history[2].by # last_op.thread
    /\ Thr(last_op.thread).causality # last_op.before

\* store k of history h heads a release sequence that ends at store j: every
\* store after k up to j was pushed by an rmw
ReleaseSequenceTo(h, k, j) == k < j /\ \A i \in (k + 1)..j : h[i].rmw

\* C22: when an Acquire (or stronger) load reads a store that an rmw appended,
\* of whatever ordering, and the chain of rmw stores below it starts at a
\* store made with Release or stronger, the loading thread's causality is
\* pointwise >= the causality of that store's thread at its store.
C22_ReleaseSequence ==
    (Loaded /\ AcquireOrStronger(last_op.order)) =>
        LET h == objects.atomic[last_op.x].history
        IN  \A k \in 1..last_op.index :
                (ReleaseSequenceTo(h, k, last_op.index)
                    /\ ReleaseOrStronger(h[k].order))
                  => VVLe(h[k].at, Thr(last_op.thread).causality)

\* an Acquire load has read the store a second thread's Relaxed rmw appended
\* on top of a third thread's Release store, and learned of that thread's
\* causality through it
C22_Witness ==
    /\ Loaded /\ last_op.order = "Acquire"
    /\ LET h == objects.atomic[last_op.x].history
           j == last_op.index
       IN  /\ j >= 2
           /\ h[j].rmw /\ h[j].order = "Relaxed"
           /\ h[j - 1].order = "Release" /\ ~h[j - 1].rmw
           /\ h[j - 1].by # h[j].by
           /\ last_op.thread \notin {h[j].by, h[j - 1].by}
           /\ ~VVLe(h[j - 1].at, last_op.before)

\* the stores of every atomic
AllStores ==
    UNION {{objects.atomic[x].history[k] : k \in 1..Len(objects.atomic[x].history)} :
             x \in 1..Len(objects.atomic)}

\* the largest number of a non-empty finite set
SetMax(S) == CHOOSE m \in S : \A n \in S : n <= m

\* C23: a fence of an ordering other than Acquire panics.  After fence(Acquire)
\* by thread B, B's causality is pointwise >= the vector of every store that
\* carries B's first-seen mark (B has read it, with a Relaxed load or any
\* other), and the fence has added nothing else: B's causality is its
\* causality on entry joined with the vectors of exactly those stores.
C23_Fence ==
    last_op.kind = "fence" =>
        LET B == last_op.thread
            mine == {s \in AllStores : s.first_seen[B] # -1}
        IN  /\ last_op.order # "Acquire" => panic # ""
            /\ last_op.order = "Acquire" =>
                  /\ panic = ""
                  /\ \A s \in mine : VVLe(s.sync, Thr(B).causality)
                  /\ \A u \in Tids :
                        Thr(B).causality[u] =
                            SetMax({last_op.before[u]} \cup {s.sync[u] : s \in mine})

\* C24, the step: within a replay, the branch that opens wait on a Notify
\* whose flag is true leaves the caller not Blocked; a wait returns only from
\* a true flag and leaves it false; notify leaves the flag true whatever it
\* was; and the flag of a Notify changes from false to true only in a notify
\* on it, and from true to false only in a wait on it that returns.
C24_NotifyStep ==
    SameReplay =>
        /\ (last_op'.kind = "notify_wait_branch"
              /\ objects.notify[last_op'.x].notified)
              => ~is_blocked(threads'.threads[last_op'.thread])
        /\ (last_op'.kind = "notify_wait" /\ panic' = "")
              => /\ objects.notify[last_op'.x].notified
                 /\ ~objects'.notify[last_op'.x].notified
        /\ last_op'.kind = "notify" => objects'.notify[last_op'.x].notified
        /\ \A n \in 1..Len(objects.notify) :
              /\ (~objects.notify[n].notified /\ objects'.notify[n].notified)
                    => (last_op'.kind = "notify" /\ last_op'.x = n)
              /\ (objects.notify[n].notified /\ ~objects'.notify[n].notified)
                    => (last_op'.kind = "notify_wait" /\ last_op'.x = n
                          /\ panic' = "")

\* C24: wait on a Notify whose flag is already true does not block the caller,
\* and whenever a wait returns the flag is false: a notification is consumed
\* by at most one wait, and notify calls made while the flag is true do not
\* accumulate.
C24_Notify == [][C24_NotifyStep]_vars

\* a Notify was notified twice before its waiter ran again: the first wait
\* returned, the second found the flag false and blocked for good
C24_Witness ==
    /\ scenario.name = "notify_twice"
    /\ last_op.kind = "notify_wait_branch" /\ last_op.thread = 1
    /\ pc[2] > Len(NotifyI(1) \o NotifyI(1))
    /\ pc[1] = Len(SpawnI \o JoinI(1) \o JoinI(1))
    /\ is_blocked(Thr(1))
    /\ ~objects.notify[1].notified
    /\ panic = "deadlock"

\* C25: whenever a thread resumes inside Notify::wait after having blocked,
\* the notified flag is true, so assert!(state.notified) never fails, in every
\* interleaving, also when several threads wait on the same Notify and one
\* notify unparks all of them.
C25_AssertNotified ==
    /\ panic # "assert notified"
    /\ (Running /\ Cur.op = "notify_wait") => objects.notify[Cur.obj.index].notified

\* a call of schedule has just run and called Path::backtrack(r[1], r[2]) for
\* every r in races'
Backtracked == last_op'.sched /\ panic' = ""

\* the Schedule at the point of race r cannot take a backtrack: it has used
\* up the preemption bound
Suppressed(sch) ==
    path.preemption_bound # -1 /\ sch.preemptions = path.preemption_bound

\* C26 as stated, over the calls backtrack(point, T) that schedule makes, at
\* Schedules that have not used up a preemption bound: afterwards T is Pending
\* at the Schedule of that point, unless T is Disabled there, and then every
\* thread of that Schedule is Pending (read in the claim's favour: every
\* thread but the Disabled ones and the one that is Active there).
C26_Original ==
    [][Backtracked =>
          \A r \in races' :
              LET s == ScheduleAt(path, r[1])
                  s1 == ScheduleAt(path', r[1])
              IN  (~Suppressed(s) /\ r[2] <= Len(s.threads)) =>
                      IF s.threads[r[2]] = "Disabled"
                      THEN \A k \in 1..Len(s1.threads) :
                              s1.threads[k] \in {"Pending", "Disabled", "Active"}
                      ELSE s1.threads[r[2]] = "Pending"]_vars

\* C26 as amended: backtrack(point, T) changes only threads that are Skip at
\* the Schedule of that point, and only to Pending: T itself when T is
\* enabled there, every Skip thread when T is Disabled there.  A thread that
\* is Pending, Active, Visited, Yield or Disabled there keeps its status, and
\* nothing changes when T has no entry in that Schedule or the Schedule has
\* used up the preemption bound.
C26_Backtrack ==
    [][Backtracked =>
          \A r \in races' :
              LET s == ScheduleAt(path, r[1])
                  s1 == ScheduleAt(path', r[1])
                  T == r[2]
                  at == {q \in races' : q[1] = r[1] /\ q[2] <= Len(s.threads)}
              IN  /\ Len(s1.threads) = Len(s.threads)
                  /\ Suppressed(s) => s1 = s
                  /\ (path.preemption_bound = -1 /\ at = {}) => s1 = s
                  /\ (~Suppressed(s) /\ T <= Len(s.threads)) =>
                        /\ s.threads[T] = "Skip" => s1.threads[T] = "Pending"
                        /\ s.threads[T] = "Disabled" =>
                              \A k \in 1..Len(s.threads) :
                                  s.threads[k] = "Skip" => s1.threads[k] = "Pending"
                  /\ \A k \in 1..Len(s.threads) :
                        /\ s.threads[k] # "Skip" => s1.threads[k] = s.threads[k]
                        /\ s1.threads[k] \in {s.threads[k], "Pending"}
                        /\ (path.preemption_bound = -1
                              /\ s1.threads[k] # s.threads[k]) =>
                              \E q \in at :
                                  q[2] = k \/ s.threads[q[2]] = "Disabled"]_vars

\* schedule has called backtrack for a thread that was Disabled at the earlier
\* Schedule, and a runnable thread there has been marked Pending in its place
\* beside the thread that was scheduled there
C26_Witness ==
    /\ last_op.sched /\ panic = ""
    /\ \E r \in races :
          LET s == ScheduleAt(path, r[1])
          IN  /\ r[2] <= Len(s.threads)
              /\ s.threads[r[2]] = "Disabled"
              /\ \E k \in 1..Len(s.threads) :
                    s.threads[k] = "Pending" /\ s.init_threads[k] = "Skip"
              /\ \E k \in 1..Len(s.threads) : s.threads[k] = "Active"

\* C27: with preemption_bound = Some(b), in every reachable state every
\* Schedule on the Path has preemptions <= b, the assertion of
\* Schedule::backtrack has not failed, and a Schedule whose preemptions equals
\* b holds no Pending thread (none is created Pending and none is changed to
\* Pending there).
C27_PreemptionBound ==
    path.preemption_bound # -1 =>
        /\ panic # "preemptions"
        /\ \A j \in 1..Len(path.schedules) :
              /\ path.schedules[j].preemptions <= path.preemption_bound
              /\ path.schedules[j].preemptions = path.preemption_bound =>
                    \A k \in 1..Len(path.schedules[j].threads) :
                        ~is_pending(path.schedules[j].threads[k])

\* under a bound of at least one, schedule found a race at a Schedule that
\* has used up the bound and left it unmarked, on a Path that holds a
\* preempted Schedule below the bound
C27_Witness ==
    /\ path.preemption_bound >= 1
    /\ last_op.sched /\ panic = ""
    /\ \E r \in races :
          LET s == ScheduleAt(path, r[1])
          IN  /\ s.preemptions = path.preemption_bound
              /\ r[2] <= Len(s.threads)
              /\ s.threads[r[2]] = "Skip"
    /\ \E j \in 1..Len(path.schedules) :
          /\ path.schedules[j].preemptions < path.preemption_bound
          /\ path.schedules[j].initial_active # 0
          /\ path.schedules[j].initial_active # active(path.schedules[j].threads)

\* the Schedule (1-based) that race r points at
RaceSchedule(r) == path.branches[r[1] + 1].idx

\* the Schedules before Schedule i, the first left out, at which the active
\* thread differs from that of the Schedule before
SwitchedFromPredecessor(i) ==
    {j \in 2..(i - 1) :
        active(path.schedules[j].threads) # active(path.schedules[j - 1].threads)}

\* the Schedules before Schedule i at which the active thread differs from
\* that of the Schedule after
SwitchedToSuccessor(i) ==
    {j \in 1..(i - 1) :
        active(path.schedules[j].threads) # active(path.schedules[j + 1].threads)}

\* the nearest of a set of Schedules, the first Schedule when there is none
NearestOrFirst(S) == IF S = {} THEN 1 ELSE SetMax(S)

\* thread T, runnable and unexplored at Schedule j before the step, is
\* Pending there after it, unless the Schedule has used up the bound
MarkedAt(j, T) ==
    (~Suppressed(path.schedules[j]) /\ T <= Len(path.schedules[j].threads)
        /\ path.schedules[j].threads[T] = "Skip")
      => path'.schedules[j].threads[T] = "Pending"

\* C28 as stated: under a preemption bound, backtrack at Schedule i marks the
\* thread also at the nearest earlier Schedule whose active thread differs
\* from its successor's, and at the first Schedule when there is none.
C28_Original ==
    [][(Backtracked /\ path.preemption_bound # -1) =>
          \A r \in races' :
              RaceSchedule(r) > 1 =>
                  MarkedAt(NearestOrFirst(SwitchedToSuccessor(RaceSchedule(r))),
                           r[2])]_vars

\* C28 as amended: under a preemption bound, backtrack at Schedule i, i not
\* the first, adds besides the normal backtrack at i one conservative
\* backtrack at the nearest Schedule j, 0 < j < i, whose active thread
\* differs from its predecessor's (the Schedule at which the running thread
\* changed), and at the first Schedule when no such j exists; no thread
\* changes status at any other Schedule.
C28_Conservative ==
    [][(Backtracked /\ path.preemption_bound # -1) =>
          /\ \A r \in races' :
                /\ MarkedAt(RaceSchedule(r), r[2])
                /\ RaceSchedule(r) > 1 =>
                      MarkedAt(NearestOrFirst(
                                  SwitchedFromPredecessor(RaceSchedule(r))), r[2])
          /\ \A j \in 1..Len(path.schedules) :
                path'.schedules[j] # path.schedules[j] =>
                    \E r \in races' :
                        \/ j = RaceSchedule(r)
                        \/ /\ RaceSchedule(r) > 1
                           /\ j = NearestOrFirst(
                                     SwitchedFromPredecessor(RaceSchedule(r)))]_vars

\* under a bound, a race was found at a Schedule and the thread was marked
\* Pending also at the Schedule where the running thread had last changed,
\* which is neither the first Schedule nor the one the claim names
C28_Witness ==
    /\ path.preemption_bound >= 1
    /\ last_op.sched /\ panic = ""
    /\ \E r \in races :
          LET i == RaceSchedule(r)
              c == NearestOrFirst(SwitchedFromPredecessor(i))
          IN  /\ i > 1 /\ c > 1
              /\ c # NearestOrFirst(SwitchedToSuccessor(i))
              /\ r[2] <= Len(path.schedules[c].threads)
              /\ path.schedules[c].threads[r[2]] = "Pending"
              /\ path.schedules[c].init_threads[r[2]] = "Skip"

\* C29, the call of step: the frames that remain are the frames of a prefix of
\* the tape; every Schedule frame that was popped held no Pending thread;
\* when the last remaining frame is a Schedule, its Active thread has become
\* Visited, exactly one thread that was Pending has become Active, and its
\* other threads, like every Schedule below, are as they were.
C29_StepCall ==
    last_op'.kind = "step" =>
        LET n == Len(path.branches)
            n1 == Len(path'.branches)
        IN  /\ n1 <= n
            /\ \A m \in 1..n1 : path'.branches[m] = path.branches[m]
            /\ \A m \in (n1 + 1)..n :
                  path.branches[m].kind = "Schedule" =>
                      \A k \in 1..Len(path.schedules[path.branches[m].idx].threads) :
                          ~is_pending(path.schedules[path.branches[m].idx].threads[k])
            /\ \A j \in 1..Len(path'.schedules) :
                  LET s == path.schedules[j].threads
                      s1 == path'.schedules[j].threads
                  IN  IF n1 > 0 /\ path.branches[n1] = [kind |-> "Schedule", idx |-> j]
                      THEN \E k \in 1..Len(s) :
                              /\ s[k] = "Pending" /\ s1[k] = "Active"
                              /\ s1 = [q \in 1..Len(s) |->
                                          IF q = k THEN "Active"
                                          ELSE IF s[q] = "Active" THEN "Visited"
                                          ELSE s[q]]
                      ELSE s1 = s

\* C29, every step: a thread that is Visited at a Schedule frame is Visited
\* there for as long as the frame is on the tape.
C29_VisitedStays ==
    \A j \in 1..Len(path.schedules) :
        j <= Len(path'.schedules) =>
            \A k \in 1..Len(path.schedules[j].threads) :
                path.schedules[j].threads[k] = "Visited" =>
                    /\ k <= Len(path'.schedules[j].threads)
                    /\ path'.schedules[j].threads[k] = "Visited"

\* C29: on step, at the last Schedule frame the Active thread becomes Visited
\* and exactly one Pending thread, if any, becomes Active, otherwise the frame
\* is popped; a thread that is Visited at a Schedule is never made Pending or
\* Active again at that Schedule by a later backtrack or step.
C29_Step == [][C29_StepCall /\ C29_VisitedStays]_vars

\* step has promoted one of two Pending threads at the last Schedule frame,
\* next to a thread that is Visited there, after popping frames above it
C29_Witness ==
    /\ last_op.kind = "step" /\ step_ret = "true"
    /\ Len(paths) > 0
    /\ Len(path.branches) < Len(paths[Len(paths)])
    /\ LET b == path.branches[Len(path.branches)]
       IN  /\ b.kind = "Schedule"
           /\ \E k1, k2, k3 \in 1..Len(path.schedules[b.idx].threads) :
                 /\ path.schedules[b.idx].threads[k1] = "Visited"
                 /\ path.schedules[b.idx].threads[k2] = "Active"
                 /\ path.schedules[b.idx].threads[k3] = "Pending"

\* the longest seed of store indices tried on branch_write
MaxSeedLen == 2

\* the seeds a caller may hand to branch_thread: a status per thread
ThreadSeeds ==
    UNION {[1..n -> {"Disabled", "Skip", "Yield", "Active"}] : n \in 0..MaxThreads}

\* the seeds a caller may hand to branch_write: store indices
WriteSeeds == UNION {[1..n -> 1..MaxThreads] : n \in 0..MaxSeedLen}

\* the Path is replaying: the next branch point is already on the tape
Replaying == path.pos < Len(path.branches)

\* C30, the functions: while replaying, branch_thread and branch_write return
\* the decision stored at branches[pos] (the thread Active at that Schedule,
\* the front of that Write's queue) for every seed, add one to pos and leave
\* the rest of the Path as it is.
C30_StoredDecision ==
    Replaying =>
        LET b == path.branches[path.pos + 1]
            next == [path EXCEPT !.pos = @ + 1]
        IN  IF b.kind = "Schedule"
            THEN \A seed \in ThreadSeeds :
                    branch_thread(path, seed) =
                        [path |-> next,
                         ret |-> active(path.schedules[b.idx].threads),
                         panic |-> ""]
            ELSE \A seed \in WriteSeeds :
                    branch_write(path, seed) =
                        [path |-> next, ret |-> path.writes[b.idx][1], panic |-> ""]

\* C30, the replay: within a replay the decisions stored on the tape stay as
\* they are, and a step that passes a stored branch point takes the decision
\* stored there (the thread it makes active, the store its load reads)
\* without adding a frame.
C30_ReplayStep ==
    (SameReplay /\ panic' = "") =>
        /\ Len(path'.branches) >= Len(path.branches)
        /\ \A m \in 1..Len(path.branches) : Decision(path', m) = Decision(path, m)
        /\ (Replaying /\ path'.pos # path.pos) =>
              /\ path'.pos = path.pos + 1
              /\ path'.branches = path.branches
              /\ path'.writes = path.writes
              /\ Len(path'.schedules) = Len(path.schedules)
              /\ LET d == Decision(path, path.pos + 1)
                 IN  IF d[1] = "Schedule"
                     THEN last_op'.sched /\ threads'.active = d[2]
                     ELSE last_op'.kind = "load" /\ last_op'.index = d[2]

\* C30: while replaying, branch_thread and branch_write return the decision
\* stored at branches[pos] whatever seed the caller supplies, increment pos
\* and leave branches, schedules and writes unchanged; two replays from the
\* same tape prefix therefore take identical decisions along that prefix.
C30_Replay == [](C30_StoredDecision) /\ [][C30_ReplayStep]_vars

\* a load has replayed a stored decision that is not the first index of the
\* seed it offered, and the replay has more of the tape before it
C30_Witness ==
    /\ Loaded
    /\ Replaying
    /\ Len(paths) > 0
    /\ Len(last_op.seed) >= 2
    /\ last_op.index # last_op.seed[1]

\* C31: while the active thread has critical = true and stays runnable, no
\* call of schedule, recording or replaying, makes a different thread active.
C31_NoPreemption ==
    [][(/\ Running
        /\ Thr(Me).critical
        /\ last_op'.sched
        /\ panic' = ""
        /\ is_runnable(threads'.threads[Me]))
          => threads'.active = Me]_vars

\* what frame k of the tape can still give: at a Schedule the threads that
\* are or may yet become Active (Active, Pending, Skip), at a Write the store
\* indices still queued
FrameRank(p, k) ==
    LET b == p.branches[k]
    IN  IF b.kind = "Schedule"
        THEN Cardinality({j \in 1..Len(p.schedules[b.idx].threads) :
                            p.schedules[b.idx].threads[j]
                                \in {"Active", "Pending", "Skip"}})
        ELSE Len(p.writes[b.idx])

\* the rank of a branch point no replay has reached yet: above every frame's
Unexplored == MaxBranches + 1

RankAt(p, k) == IF k <= Len(p.branches) THEN FrameRank(p, k) ELSE Unexplored

\* the tape p is below the tape q: at the first branch point where their ranks
\* differ, p's is the smaller
TapeLess(p, q) ==
    \E k \in 1..MaxBranches :
        /\ \A m \in 1..(k - 1) : RankAt(p, m) = RankAt(q, m)
        /\ RankAt(p, k) < RankAt(q, k)

\* C32, the bound: every frame's rank is below that of an unexplored branch
\* point, and the tape is never longer than max_branches.
C32_Ranked ==
    /\ Len(path.branches) <= path.max_branches
    /\ \A k \in 1..Len(path.branches) : FrameRank(path, k) < Unexplored

\* C32, the variant: a call of Path::step that returns true leaves a tape
\* below the one it was given (it pops frames and consumes one alternative of
\* the frame it stops at), one that returns false leaves the empty tape; the
\* steps of a replay never raise the tape: they add frames at its end, and a
\* backtrack keeps every stored frame's rank and every stored Write's queue.
C32_Variant ==
    /\ last_op'.kind = "step" =>
          IF step_ret' = "true" THEN TapeLess(path', path)
          ELSE Len(path'.branches) = 0
    /\ SameReplay =>
          /\ Len(path'.branches) >= Len(path.branches)
          /\ \A k \in 1..Len(path.branches) :
                /\ path'.branches[k] = path.branches[k]
                /\ FrameRank(path', k) = FrameRank(path, k)
                /\ path.branches[k].kind = "Write" =>
                      path'.writes[path.branches[k].idx]
                          = path.writes[path.branches[k].idx]

\* C32: the exploration of a closure whose replays are bounded terminates:
\* unless a replay panics, step returns false after finitely many replays;
\* each step pops a frame or consumes one alternative, and backtracking
\* re-adds no Visited thread and no dequeued store index.
C32_Terminates ==
    /\ <>(step_ret = "false" \/ panic # "")
    /\ [](C32_Ranked)
    /\ [][C32_Variant]_vars

\* a closure with races has been explored to the end over several replays
\* without a panic
C32_Witness ==
    /\ step_ret = "false"
    /\ panic = ""
    /\ Len(paths) >= 3
    /\ raced # {}
    /\ \E k \in 1..Len(paths) : \E m \in 1..Len(paths[k]) : paths[k][m][1] = "Write"

=============================================================================
